---- MODULE Spec2Model ----
(***************************************************************************)
(* Model of the fabric controller's raft integration                      *)
(* (controller/raft/raft.go): startup (Controller.Init), cluster           *)
(* membership (Join, RemoveServer) and the consensus engine as seen from   *)
(* the controller (log, commit, FSM apply, snapshot, restart).            *)
(***************************************************************************)
EXTENDS Integers, Sequences, FiniteSets, TLC

\* ---------------------------------------------------------------- bounds
\* Largest configured raft.Config.MinClusterSize explored.
MaxClusterSize == 2
\* Join requests received from peers over the mesh, per model run.
MaxJoins == 2
\* Entries the raft log can hold.
MaxLog == 2
\* Process restarts (crash or exit followed by a new NewController).
MaxRestarts == 1
\* RemoveServer calls, per model run.
MaxRemoves == 1
\* Dispatch calls per model run.
MaxDispatches == 2
\* Link messages: sequences -1..MaxSequence (and the ends of int32), fragment
\* fields up to MaxFragment, message types 0..MaxMessageType.
MaxSequence == 1
MaxFragment == 1
MaxMessageType == 4
\* A traced channel: messages the peer and the application send over it, and
\* the messages its outbound queue holds before Send blocks.
MaxMessages == 2
MaxQueue == 1

\* ---------------------------------------------------------------- values
NoFile == "<absent>"
NoThread == "<none>"
\* The goroutines that call Join: Init's own (the self join) and the mesh
\* join handler's.
Threads == {"init", "peer"}
\* Ids and addresses a join request can carry; "" is the empty string.
ReqIds == {"", "a", "b"}
ReqAddrs == {"", "x"}
JoinRequests == [Id : ReqIds, Addr : ReqAddrs, IsVoter : BOOLEAN]
NoRequest == [Id |-> "", Addr |-> "", IsVoter |-> FALSE]
\* Config.AdvertiseAddress for the local node.
AdvertiseAddress == "x0"
\* The values the Controller's tempId field can hold when Init is entered:
\* empty (NewController leaves it so) or an id supplied beforehand.
SuppliedIds == {"", "n0", "s1"}
\* No configuration has been passed to raft.RecoverCluster or BootstrapCluster.
NoConfig == <<>>
\* The controllers of a cluster, by id, and their advertise addresses.
Nodes == {"n0", "n1"}
NodeAddr == [n \in Nodes |-> IF n = "n0" THEN "x0" ELSE "x1"]
\* The join requests these controllers send: each for itself.
NodeRequests == {[Id |-> m, Addr |-> NodeAddr[m], IsVoter |-> v] : m \in Nodes, v \in BOOLEAN}
\* The two goroutines of a channel that call the peek handler, and the
\* content types it tells apart (line 101-102).
Dirs == {"rx", "tx"}
TraceEventType == "TraceEventType"
StreamTracesEventType == "StreamTracesEventType"
ContentTypes == {TraceEventType, StreamTracesEventType, "data"}
NoType == "<none>"
\* No ToggleApplyResult has been sent yet; trace has not been called yet.
NoToggle == [matched |-> FALSE, enable |-> FALSE, prevState |-> FALSE, nextState |-> FALSE,
             sent |-> FALSE]
NoTrace == [contentType |-> NoType, enabled |-> FALSE, published |-> FALSE]
LogTypes == {"cfg", "cmd"}

NoLeader == ""
LeaderAddress == "L"
\* The content types and header of the consensus RPC envelope.
NewLogEntryType == "NewLogEntryType"
SuccessResponseType == "SuccessResponseType"
ErrorResponseType == "ErrorResponseType"
OtherResponseType == "OtherResponseType"
ErrorCodeApiError == "ErrorCodeApiError"

\* A command: whether it implements command.Validatable, whether Validate
\* accepts it, whether Encode succeeds.
Commands ==
    {c \in [name : {"c1", "c2"}, validatable : BOOLEAN, valid : BOOLEAN,
            encodable : BOOLEAN] : c.validatable \/ c.valid}
NoCommand == [name |-> "", validatable |-> FALSE, valid |-> TRUE, encodable |-> FALSE]

\* A reply of the leader: content type, HeaderErrorCode (absent, the API error
\* code, another code) and a body that is a JSON ApiError or is not.
ErrorCodes == {"<absent>", ErrorCodeApiError, "other"}
Bodies == {"json", "text"}
Replies == [ContentType : {SuccessResponseType, ErrorResponseType, OtherResponseType},
            ErrorCode : ErrorCodes, Body : Bodies]
NoReply == [ContentType |-> "<none>", ErrorCode |-> "<absent>", Body |-> ""]

\* What the FSM answers for an applied command: nil, an error, another value.
FsmResponses == {"nil", "error", "value"}
NoResponse == "<none>"

\* Error values Dispatch can return; Nil is the nil error.
Nil == [kind |-> "nil", detail |-> ""]
Err(kind, detail) == [kind |-> kind, detail |-> detail]

\* cmd.Encode(): the bytes of a command.
Encode(cmd) == "enc:" \o cmd.name

\* ---------------------------------------------------------------- link protocol values
\* message.go, lines 55-70.
magicV1 == <<1, 2, 2, 0>>
messageSectionLength == 15
Hello == 0
Ping == 1
Payload == 2
Acknowledgement == 3
mss == 1472
noReplyFor == -1
\* udp.MaxPacketSize, the size of readMessage's buffer (line 131).
MaxPacketSize == 65507
\* The range of int32 (message.sequence, line 267).
MaxInt32 == 2147483647
MinInt32 == -MaxInt32 - 1

\* &message{} (line 217): the zero message.
ZeroMessage ==
    [sequence |-> 0, fragment |-> 0, ofFragments |-> 0, messageType |-> 0,
     headersLength |-> 0, payloadLength |-> 0, payload |-> <<>>]
\* A *message: nil, or a reference to a message.
NilMessage == [nil |-> TRUE, val |-> ZeroMessage]
Ref(m) == [nil |-> FALSE, val |-> m]
\* What a call that returns (*message, error) did: it returned, or panicked.
Returned(ptr, err) == [panic |-> FALSE, m |-> ptr, err |-> err]
Panicked == [panic |-> TRUE, m |-> NilMessage, err |-> ""]
NoResult == [panic |-> FALSE, m |-> NilMessage, err |-> "<none>"]
\* What encodeMessage returned: ([]byte, error).
NoFrame == [data |-> <<>>, err |-> "<none>"]
\* What a handler returned, and the callbacks it made.
NoReturn == [panic |-> FALSE, err |-> "<none>"]

VARIABLES
    \* raft.Config
    minClusterSize, recover,
    \* the data directory: id file, raft.db (log), snapshots
    idFile, log, snapIndex,
    \* the process and Controller.Init's position
    proc, initPc, restarts,
    \* Controller fields
    tempId, meshUp, raftSet, fsmInitialized, bootstrapped, servers, clusterLock,
    \* Join and RemoveServer calls in progress
    joinPc, joinReq, lastJoin, joinsLeft, removePc, removesLeft,
    \* the consensus engine started by raft.NewRaft
    engineUp, commitIndex, lastApplied, restoredIndex,
    \* what has happened (history): the requests behind the pending list, the
    \* entries passed to Fsm.Apply by this process and by all processes so far,
    \* and the successful BootstrapCluster calls
    pendingReqs, appliedNow, appliedCount, bootstrapOk,
    \* the raft state of the node as Dispatch sees it
    raftState, leaderAddr,
    \* a Dispatch call: position, command, branch taken, reply, the FSM's
    \* answer (f.Response(), line 176), result
    dPc, dCmd, dPath, dReply, dVal, dRet, dispatchesLeft,
    \* what the Dispatch call has done (history)
    validateCalls, encodeCalls, connectCalls, raftApplyCalls, sent,
    \* the wire codec and the handlers: position, the message in hand, the
    \* result of encodeMessage, the datagram, the result of decodeMessage or
    \* readMessage, the handler's argument and result
    cPc, cMsg, cEnc, cData, cDec, hIn, hRet,
    \* the callbacks made (history)
    helloCalls, pingCalls,
    \* a link-establishment attempt: its state, whether the process lives,
    \* the sequence of the Ping sent, the datagram waiting at the socket
    linkState, linkPc, lSeq, lWire,
    \* what the attempt has done (history): Hello and Ping written, the Ping
    \* answered, socket writes and reads, send and receive calls
    helloWritten, pingWritten, pingReplied, socketWrites, socketReads,
    sendCalls, receiveCalls,
    \* Init's progress besides its position: the error it returned, whether the
    \* bolt store is open, and (history) the requests it passed to Join and the
    \* configuration it passed to raft.RecoverCluster
    initErr, storeOpen, selfJoins, recoveredConfig,
    \* the controllers of a cluster side by side: for each its pending list,
    \* its bootstrapped flag, the configuration it bootstrapped with, its last
    \* log index and the Join calls it may still receive
    cluster,
    \* a traced channel: the handler's enabled flag, the position of the
    \* channel's rx and tx goroutines in Rx and Tx, the message each holds, the
    \* channel's outbound queue, the goroutines started for the event sink,
    \* and the messages still to come
    tEnabled, tPc, tMsg, tQueue, tSinks, tBudget, tResult, tLast

peerVars == <<cluster>>
traceVars == <<tEnabled, tPc, tMsg, tQueue, tSinks, tBudget, tResult, tLast>>
auxVars == <<peerVars, traceVars>>
bootVars == <<initErr, storeOpen, selfJoins, recoveredConfig>>
cfgVars == <<minClusterSize, recover>>
codecVars == <<cPc, cMsg, cEnc, cData, cDec, hIn, hRet, helloCalls, pingCalls>>
shakeVars == <<linkState, linkPc, lSeq, lWire, helloWritten, pingWritten, pingReplied,
               socketWrites, socketReads, sendCalls, receiveCalls>>
linkVars == <<codecVars, shakeVars>>
diskVars == <<idFile, log, snapIndex>>
procVars == <<proc, initPc, restarts>>
ctlVars == <<tempId, meshUp, raftSet, fsmInitialized, bootstrapped, servers, clusterLock>>
callVars == <<joinPc, joinReq, lastJoin, joinsLeft, removePc, removesLeft>>
engineVars == <<engineUp, commitIndex, lastApplied, restoredIndex>>
histVars == <<pendingReqs, appliedNow, appliedCount, bootstrapOk>>
raftVars == <<raftState, leaderAddr>>
dispVars == <<dPc, dCmd, dPath, dReply, dVal, dRet, dispatchesLeft>>
dhistVars == <<validateCalls, encodeCalls, connectCalls, raftApplyCalls, sent>>
dispatchVars == <<raftVars, dispVars, dhistVars>>
vars == <<auxVars, linkVars, bootVars, cfgVars, diskVars, procVars, ctlVars, callVars, engineVars, histVars,
          dispatchVars>>

\* ---------------------------------------------------------------- helpers
\* uuid.NewString(), line 338: a value that no id file holds yet.
NewUuid == IF idFile = "n0" THEN "n1" ELSE "n0"

\* A variant of initializeId that writes the id file whether or not it is
\* there already.
initializeIdOverwriting(file, id, fresh, ioOk) ==
    LET new == IF id = "" THEN fresh ELSE id IN
    IF ~ioOk THEN [idFile |-> file, tempId |-> id, err |-> "io"]
    ELSE [idFile |-> new, tempId |-> new, err |-> ""]

\* A variant of initializeId that takes the id of an existing file whatever
\* the tempId field holds.
initializeIdAdopting(file, id, fresh, ioOk) ==
    IF ~ioOk THEN [idFile |-> file, tempId |-> id, err |-> "io"]
    ELSE IF file = NoFile
    THEN LET new == IF id = "" THEN fresh ELSE id IN
         [idFile |-> new, tempId |-> new, err |-> ""]
    ELSE [idFile |-> file, tempId |-> file, err |-> ""]

\* initializeId, lines 333-354, as a function of the id file's content, the
\* tempId field on entry, the uuid it would generate and whether the file
\* operation (WriteFile, ReadFile) succeeds: the file and the field
\* afterwards, and the error returned ("" for nil).
initializeId(file, id, fresh, ioOk) ==
    IF file = NoFile
    THEN LET new == IF id = "" THEN fresh ELSE id IN
         IF ioOk THEN [idFile |-> new, tempId |-> new, err |-> ""]
         ELSE [idFile |-> file, tempId |-> new, err |-> "io"]
    ELSE IF ~ioOk THEN [idFile |-> file, tempId |-> id, err |-> "io"]
    ELSE IF id # "" /\ id # file
         THEN [idFile |-> file, tempId |-> id, err |-> "identity"]
    ELSE [idFile |-> file, tempId |-> file, err |-> ""]

\* Raft.LastIndex(): the index of the last entry of the log store.
LastIndex == Len(log)

\* Join, lines 295-298: the suffrage recorded for a request.
JoinSuffrage(req) == IF req.IsVoter THEN "Nonvoter" ELSE "Voter"

\* Join, lines 300-304: the raft.Server appended for a request.
JoinServer(req) ==
    [ID |-> req.Id, Address |-> req.Addr, Suffrage |-> JoinSuffrage(req)]

\* Join, lines 306-311: the number of servers with Suffrage == raft.Voter.
VotingCount(srvs) ==
    Cardinality({i \in 1..Len(srvs) : srvs[i].Suffrage = "Voter"})

\* A variant of the test of line 291 that forgets the log: only the in-memory
\* flag is consulted.
IsBootstrappedFlagOnly == bootstrapped

\* Join, line 291: the test that sends a request to HandleJoin.
IsBootstrapped == bootstrapped \/ LastIndex > 0

\* Join, line 313: the test that starts the bootstrap.
ReachedClusterSize(srvs) == VotingCount(srvs) >= minClusterSize

\* Join, lines 314-317: the pending list kept when BootstrapCluster fails.
ServersAfterFailedBootstrap(before, appended) == appended

\* The volatile state of a process that has just been started, but for the
\* tempId field.
FreshController ==
    /\ proc = "running"
    /\ initPc = "start"
    /\ meshUp = FALSE
    /\ raftSet = FALSE
    /\ fsmInitialized = FALSE
    /\ bootstrapped = FALSE
    /\ servers = <<>>
    /\ clusterLock = NoThread
    /\ joinPc = [t \in Threads |-> "idle"]
    /\ joinReq = [t \in Threads |-> NoRequest]
    /\ removePc = "idle"
    /\ engineUp = FALSE
    /\ commitIndex = 0
    /\ lastApplied = 0
    /\ restoredIndex = 0
    /\ pendingReqs = <<>>
    /\ appliedNow = <<>>
    /\ initErr = Nil
    /\ storeOpen = FALSE
    /\ selfJoins = <<>>
    /\ recoveredConfig = NoConfig

\* The process started through NewController, lines 40-50: tempId is empty.
FreshProcess == tempId = "" /\ FreshController

\* No Dispatch call is in progress; the node is a follower that knows no leader.
DispatchIdle ==
    /\ raftState = "Follower"
    /\ leaderAddr = NoLeader
    /\ dPc = "idle"
    /\ dCmd = NoCommand
    /\ dPath = "none"
    /\ dReply = NoReply
    /\ dVal = NoResponse
    /\ dRet = Nil
    /\ dispatchesLeft = MaxDispatches
    /\ validateCalls = 0
    /\ encodeCalls = 0
    /\ connectCalls = 0
    /\ raftApplyCalls = 0
    /\ sent = <<>>

\* No codec or handler call has been made.
CodecIdle ==
    /\ cPc = "idle"
    /\ cMsg = ZeroMessage
    /\ cEnc = NoFrame
    /\ cData = <<>>
    /\ cDec = NoResult
    /\ hIn = NilMessage
    /\ hRet = NoReturn
    /\ helloCalls = <<>>
    /\ pingCalls = <<>>

\* Controllers that have started and received no Join yet.
ClusterIdle ==
    cluster = [n \in Nodes |-> [servers |-> <<>>, bootstrapped |-> FALSE, config |-> NoConfig,
                                lastIndex |-> 0, joinsLeft |-> MaxJoins]]

\* A channel with a new peek handler (NewChannelPeekHandler, lines 65-75):
\* tracing is off, nothing is in flight.
TraceIdle ==
    /\ tEnabled = FALSE
    /\ tPc = [d \in Dirs |-> "idle"]
    /\ tMsg = [d \in Dirs |-> NoType]
    /\ tQueue = <<>>
    /\ tSinks = <<>>
    /\ tBudget = MaxMessages
    /\ tResult = NoToggle
    /\ tLast = NoTrace

\* No link-establishment attempt has started.
LinkIdle ==
    /\ linkState = "Idle"
    /\ linkPc = "running"
    /\ lSeq = 0
    /\ lWire = <<>>
    /\ helloWritten = FALSE
    /\ pingWritten = FALSE
    /\ pingReplied = FALSE
    /\ socketWrites = 0
    /\ socketReads = 0
    /\ sendCalls = 0
    /\ receiveCalls = 0

Init ==
    /\ minClusterSize \in 0..MaxClusterSize
    /\ recover \in BOOLEAN
    /\ idFile = NoFile
    /\ log = <<>>
    /\ snapIndex = 0
    /\ restarts = 0
    /\ FreshProcess
    /\ lastJoin = [thread |-> NoThread, path |-> "none"]
    /\ joinsLeft = MaxJoins
    /\ removesLeft = MaxRemoves
    /\ appliedCount = [i \in 1..MaxLog |-> 0]
    /\ bootstrapOk = 0
    /\ DispatchIdle
    /\ CodecIdle
    /\ LinkIdle
    /\ ClusterIdle
    /\ TraceIdle

\* The process is alive and NewController has not given up.
Running == proc = "running" /\ initPc # "failed"

\* ---------------------------------------------------------------- Init()
\* Init, lines 183-190 with initializeId, lines 333-354.
InitId ==
    /\ Running /\ initPc = "start"
    /\ \E ioOk \in BOOLEAN :
        LET r == initializeId(idFile, tempId, NewUuid, ioOk) IN
        /\ idFile' = r.idFile
        /\ tempId' = r.tempId
        /\ initPc' = (IF r.err = "" THEN "storage" ELSE "failed")
        /\ initErr' = (IF r.err = "" THEN Nil ELSE Err(r.err, ""))
    /\ UNCHANGED <<dispatchVars, auxVars, linkVars, storeOpen, selfJoins, recoveredConfig, cfgVars, log, snapIndex, proc, restarts, meshUp, raftSet,
                   fsmInitialized, bootstrapped, servers, clusterLock,
                   callVars, engineVars, histVars>>

\* Init, lines 203-217: the bolt store and the snapshot directory.
InitStorage ==
    /\ Running /\ initPc = "storage"
    /\ \E ok \in BOOLEAN :
        /\ initPc' = (IF ok THEN "mesh" ELSE "failed")
        /\ initErr' = (IF ok THEN Nil ELSE Err("storage", ""))
        /\ storeOpen' = ok
    /\ UNCHANGED <<dispatchVars, auxVars, linkVars, selfJoins, recoveredConfig, cfgVars, diskVars, proc, restarts, ctlVars, callVars,
                   engineVars, histVars>>

\* Init, lines 219-230: the handlers are bound and the mesh listens.
InitMesh ==
    /\ Running /\ initPc = "mesh"
    /\ \E ok \in BOOLEAN :
        /\ initPc' = (IF ok THEN "fsm" ELSE "failed")
        /\ initErr' = (IF ok THEN Nil ELSE Err("mesh", ""))
        /\ meshUp' = ok
    /\ UNCHANGED <<dispatchVars, auxVars, linkVars, storeOpen, selfJoins, recoveredConfig, cfgVars, diskVars, proc, restarts, tempId, raftSet,
                   fsmInitialized, bootstrapped, servers, clusterLock,
                   callVars, engineVars, histVars>>

\* Init, lines 232-238: the transport and the FSM.
InitFsm ==
    /\ Running /\ initPc = "fsm"
    /\ \E ok \in BOOLEAN :
        /\ initPc' = (IF ~ok THEN "failed" ELSE IF recover THEN "recover" ELSE "newraft")
        /\ initErr' = (IF ok THEN Nil ELSE Err("fsm", ""))
    /\ UNCHANGED <<dispatchVars, auxVars, linkVars, storeOpen, selfJoins, recoveredConfig, cfgVars, diskVars, proc, restarts, ctlVars, callVars,
                   engineVars, histVars>>

\* A variant of the recovery configuration that keeps a peer.
RecoverConfigurationWithPeer ==
    <<[ID |-> tempId, Address |-> AdvertiseAddress], [ID |-> "a", Address |-> "x"]>>

\* Init, lines 241-245: the configuration handed to raft.RecoverCluster.
RecoverConfiguration == <<[ID |-> tempId, Address |-> AdvertiseAddress]>>

\* The command entries RecoverCluster passes to the FSM: those after the
\* latest snapshot.
RecoverReplay == SelectSeq([i \in 1..(Len(log) - snapIndex) |-> snapIndex + i],
                           LAMBDA i : log[i] = "cmd")

\* Init, lines 240-252: RecoverCluster, then os.Exit(0). RecoverCluster
\* restores the latest snapshot into the FSM, applies the log entries after
\* it, and stores a snapshot at the last index that carries the new
\* configuration; or it fails and Init returns the error.
InitRecover ==
    /\ Running /\ initPc = "recover"
    /\ \/ /\ proc' = "exited" /\ initPc' = "exited"
          /\ initErr' = Nil
          /\ recoveredConfig' = RecoverConfiguration
          /\ snapIndex' = LastIndex
          /\ appliedNow' = appliedNow \o RecoverReplay
          /\ appliedCount' = [i \in 1..MaxLog |->
                appliedCount[i] + (IF i > snapIndex /\ i <= Len(log) /\ log[i] = "cmd"
                                   THEN 1 ELSE 0)]
       \/ /\ proc' = proc /\ initPc' = "failed"
          /\ initErr' = Err("recover", "")
          /\ UNCHANGED <<recoveredConfig, snapIndex, appliedNow, appliedCount>>
    /\ UNCHANGED <<dispatchVars, auxVars, linkVars, storeOpen, selfJoins, cfgVars, idFile, log,
                   restarts, ctlVars, callVars, engineVars, pendingReqs, bootstrapOk>>

\* A variant of the restore position that takes the whole log as applied, so
\* that nothing is replayed.
RestoreIndexAtLogEnd == Len(log)

\* What raft.NewRaft restores the FSM position to (conf.NoSnapshotRestoreOnStart
\* = false, line 200): the index of the latest snapshot.
RestoreIndex == snapIndex

\* Init, lines 254-257: raft.NewRaft restores the latest snapshot and starts
\* the engine's goroutines.
InitNewRaft ==
    /\ Running /\ initPc = "newraft"
    /\ \/ /\ initPc' = "failed"
          /\ initErr' = Err("newraft", "")
          /\ UNCHANGED engineVars
       \/ /\ initPc' = "setinit"
          /\ initErr' = Nil
          /\ engineUp' = TRUE
          /\ commitIndex' = 0
          /\ lastApplied' = RestoreIndex
          /\ restoredIndex' = RestoreIndex
    /\ UNCHANGED <<dispatchVars, auxVars, linkVars, storeOpen, selfJoins, recoveredConfig, cfgVars,
                   diskVars, proc, restarts, ctlVars, callVars, histVars>>

\* Init, line 258.
InitSetInitialized ==
    /\ Running /\ initPc = "setinit"
    /\ fsmInitialized' = TRUE
    /\ initPc' = "setraft"
    /\ UNCHANGED <<dispatchVars, auxVars, linkVars, bootVars, cfgVars, diskVars, proc, restarts, tempId, meshUp, raftSet,
                   bootstrapped, servers, clusterLock, callVars, engineVars,
                   histVars>>

\* Init, line 259.
InitSetRaft ==
    /\ Running /\ initPc = "setraft"
    /\ raftSet' = TRUE
    /\ initPc' = "checkidx"
    /\ UNCHANGED <<dispatchVars, auxVars, linkVars, bootVars, cfgVars, diskVars, proc, restarts, tempId, meshUp,
                   fsmInitialized, bootstrapped, servers, clusterLock, callVars,
                   engineVars, histVars>>

\* Init, lines 261-270: a log with entries marks the node bootstrapped;
\* otherwise Init goes on to join itself.
InitCheckIndex ==
    /\ Running /\ initPc = "checkidx"
    /\ IF LastIndex > 0
       THEN bootstrapped' = TRUE /\ initPc' = "done"
       ELSE bootstrapped' = bootstrapped /\ initPc' = "selfjoin"
    /\ UNCHANGED <<dispatchVars, auxVars, linkVars, bootVars, cfgVars, diskVars, proc, restarts, tempId, meshUp, raftSet,
                   fsmInitialized, servers, clusterLock, callVars, engineVars,
                   histVars>>

\* A variant of the self join's request that leaves the address out.
SelfJoinRequestNoAddress == [Id |-> tempId, Addr |-> "", IsVoter |-> TRUE]

\* Init, lines 266-270: the request of the self join.
SelfJoinRequest == [Id |-> tempId, Addr |-> AdvertiseAddress, IsVoter |-> TRUE]

\* ---------------------------------------------------------------- Join
\* A variant of the checks of lines 283-289 that forgets the address.
ValidRequestIdOnly(req) == req.Id # ""

\* Join, lines 283-289: the request carries an id and an address.
ValidRequest(req) == req.Id # "" /\ req.Addr # ""

\* Join, line 291, is evaluated left to right: with the flag unset it calls
\* LastIndex() on self.Raft, which is nil until Init's line 259.
NilRaftUse == ~bootstrapped /\ ~raftSet

\* Join, line 280: the caller takes clusterLock.
JoinLock(t, req) ==
    /\ Running /\ joinPc[t] = "idle" /\ clusterLock = NoThread
    /\ IF t = "init"
       THEN initPc = "selfjoin" /\ req = SelfJoinRequest /\ UNCHANGED joinsLeft
            /\ selfJoins' = Append(selfJoins, req)
       ELSE meshUp /\ req \in JoinRequests /\ joinsLeft > 0
            /\ joinsLeft' = joinsLeft - 1
            /\ UNCHANGED selfJoins
    /\ clusterLock' = t
    /\ joinPc' = [joinPc EXCEPT ![t] = "locked"]
    /\ joinReq' = [joinReq EXCEPT ![t] = req]
    /\ UNCHANGED <<dispatchVars, auxVars, linkVars, initErr, storeOpen, recoveredConfig, cfgVars, diskVars, procVars, tempId, meshUp, raftSet,
                   fsmInitialized, bootstrapped, servers, lastJoin, removePc,
                   removesLeft, engineVars, histVars>>

\* Join returns (the deferred Unlock, line 281); Init, lines 271-275, fails
\* when its self join does.
JoinReturn(t, path, failed) ==
    /\ clusterLock' = NoThread
    /\ joinPc' = [joinPc EXCEPT ![t] = "idle"]
    /\ joinReq' = [joinReq EXCEPT ![t] = NoRequest]
    /\ lastJoin' = [thread |-> t, path |-> path]
    /\ initPc' = (IF t # "init" THEN initPc ELSE IF failed THEN "failed" ELSE "done")
    /\ initErr' = (IF t = "init" /\ failed THEN Err("join", path) ELSE initErr)
    /\ UNCHANGED <<joinsLeft, removePc, removesLeft, storeOpen, selfJoins, recoveredConfig>>

\* Join, lines 283-289: an empty id or address is an error.
JoinInvalid(t) ==
    /\ Running /\ joinPc[t] = "locked"
    /\ ~ValidRequest(joinReq[t])
    /\ JoinReturn(t, "invalid", TRUE)
    /\ UNCHANGED <<dispatchVars, auxVars, linkVars, cfgVars, diskVars, proc, restarts, tempId, meshUp, raftSet,
                   fsmInitialized, bootstrapped, servers, engineVars, histVars>>

\* Join, line 291, on a nil self.Raft: the nil dereference ends the process.
JoinPanic(t) ==
    /\ Running /\ joinPc[t] = "locked"
    /\ ValidRequest(joinReq[t])
    /\ NilRaftUse
    /\ proc' = "panicked"
    /\ lastJoin' = [thread |-> t, path |-> "panic"]
    /\ UNCHANGED <<dispatchVars, auxVars, linkVars, bootVars, cfgVars, diskVars, initPc, restarts, ctlVars, joinPc, joinReq,
                   joinsLeft, removePc, removesLeft, engineVars, histVars>>

\* Join, lines 291-293: a bootstrapped controller hands the request to
\* HandleJoin, which adds the server through the running consensus group (a
\* membership-change log entry when it succeeds).
JoinHandle(t) ==
    /\ Running /\ joinPc[t] = "locked"
    /\ ValidRequest(joinReq[t])
    /\ ~NilRaftUse
    /\ IsBootstrapped
    /\ \/ /\ Len(log) < MaxLog
          /\ log' = Append(log, "cfg")
          /\ JoinReturn(t, "handleJoinOk", FALSE)
       \/ /\ log' = log
          /\ JoinReturn(t, "handleJoinFailed", TRUE)
    /\ UNCHANGED <<dispatchVars, auxVars, linkVars, cfgVars, idFile, snapIndex, proc, restarts, tempId, meshUp,
                   raftSet, fsmInitialized, bootstrapped, servers, engineVars,
                   histVars>>

\* Join, lines 295-311 and 321: the request joins the pending list and the
\* cluster size is not reached yet.
JoinAccumulate(t) ==
    /\ Running /\ joinPc[t] = "locked"
    /\ ValidRequest(joinReq[t])
    /\ ~NilRaftUse
    /\ ~IsBootstrapped
    /\ LET appended == Append(servers, JoinServer(joinReq[t])) IN
        /\ ~ReachedClusterSize(appended)
        /\ servers' = appended
    /\ pendingReqs' = Append(pendingReqs, joinReq[t])
    /\ JoinReturn(t, "accumulated", FALSE)
    /\ UNCHANGED <<dispatchVars, auxVars, linkVars, cfgVars, diskVars, proc, restarts, tempId, meshUp, raftSet,
                   fsmInitialized, bootstrapped, engineVars, appliedNow,
                   appliedCount, bootstrapOk>>

\* Join, lines 295-321: the request joins the pending list, the cluster size is
\* reached and BootstrapCluster is called; it succeeds (the configuration
\* becomes the first log entry) or fails.
JoinBootstrap(t) ==
    /\ Running /\ joinPc[t] = "locked"
    /\ ValidRequest(joinReq[t])
    /\ ~NilRaftUse
    /\ ~IsBootstrapped
    /\ LET appended == Append(servers, JoinServer(joinReq[t])) IN
        /\ ReachedClusterSize(appended)
        /\ \/ /\ servers' = appended
              /\ pendingReqs' = Append(pendingReqs, joinReq[t])
              /\ bootstrapped' = TRUE
              /\ bootstrapOk' = bootstrapOk + 1
              /\ log' = (IF LastIndex = 0 THEN <<"cfg">> ELSE log)
              /\ JoinReturn(t, "bootstrapOk", FALSE)
           \/ /\ servers' = ServersAfterFailedBootstrap(servers, appended)
              /\ pendingReqs' = (IF servers' = servers THEN pendingReqs
                                 ELSE Append(pendingReqs, joinReq[t]))
              /\ UNCHANGED <<bootstrapped, bootstrapOk, log>>
              /\ JoinReturn(t, "bootstrapFailed", TRUE)
    /\ UNCHANGED <<dispatchVars, auxVars, linkVars, cfgVars, idFile, snapIndex, proc, restarts, tempId, meshUp,
                   raftSet, fsmInitialized, engineVars, appliedNow, appliedCount>>

\* Join, lines 283-321, once the lock is held.
JoinBody(t) ==
    \/ JoinInvalid(t)
    \/ JoinPanic(t)
    \/ JoinHandle(t)
    \/ JoinAccumulate(t)
    \/ JoinBootstrap(t)

\* ---------------------------------------------------------------- RemoveServer
\* RemoveServer, lines 325-330: the request is built and HandleRemove entered;
\* clusterLock is not taken.
RemoveServerStart(id) ==
    /\ Running /\ initPc = "done"
    /\ removePc = "idle" /\ removesLeft > 0
    /\ removePc' = "handling"
    /\ removesLeft' = removesLeft - 1
    /\ UNCHANGED <<dispatchVars, auxVars, linkVars, bootVars, cfgVars, diskVars, procVars, ctlVars, joinPc, joinReq, lastJoin,
                   joinsLeft, engineVars, histVars>>

\* HandleRemove finishes: the membership change went through the consensus
\* group (a log entry) or failed.
RemoveServerEnd ==
    /\ Running /\ removePc = "handling"
    /\ removePc' = "idle"
    /\ \/ Len(log) < MaxLog /\ log' = Append(log, "cfg")
       \/ log' = log
    /\ UNCHANGED <<dispatchVars, auxVars, linkVars, bootVars, cfgVars, idFile, snapIndex, procVars, ctlVars, joinPc, joinReq,
                   lastJoin, joinsLeft, removesLeft, engineVars, histVars>>

\* ---------------------------------------------------------------- the engine
\* A command entry reaches the log store: this node's own Raft.Apply as
\* leader, or replication from the leader.
EngineAppend ==
    /\ proc = "running" /\ engineUp
    /\ Len(log) < MaxLog
    /\ log' = Append(log, "cmd")
    /\ UNCHANGED <<dispatchVars, auxVars, linkVars, bootVars, cfgVars, idFile, snapIndex, procVars, ctlVars, callVars,
                   engineVars, histVars>>

\* The engine learns that more of the log is committed.
EngineCommit ==
    /\ proc = "running" /\ engineUp
    /\ \E c \in (commitIndex + 1)..Len(log) : commitIndex' = c
    /\ UNCHANGED <<dispatchVars, auxVars, linkVars, bootVars, cfgVars, diskVars, procVars, ctlVars, callVars, engineUp,
                   lastApplied, restoredIndex, histVars>>

\* The engine's FSM goroutine takes the next committed entry; a command
\* entry is passed to Fsm.Apply.
EngineApply ==
    /\ proc = "running" /\ engineUp
    /\ lastApplied < commitIndex
    /\ LET idx == lastApplied + 1 IN
        /\ lastApplied' = idx
        /\ IF log[idx] = "cmd"
           THEN /\ appliedNow' = Append(appliedNow, idx)
                /\ appliedCount' = [appliedCount EXCEPT ![idx] = @ + 1]
           ELSE UNCHANGED <<appliedNow, appliedCount>>
    /\ UNCHANGED <<dispatchVars, auxVars, linkVars, bootVars, cfgVars, diskVars, procVars, ctlVars, callVars, engineUp,
                   commitIndex, restoredIndex, pendingReqs, bootstrapOk>>

\* The engine snapshots the FSM at the applied index.
EngineSnapshot ==
    /\ proc = "running" /\ engineUp
    /\ lastApplied > snapIndex
    /\ snapIndex' = lastApplied
    /\ UNCHANGED <<dispatchVars, auxVars, linkVars, bootVars, cfgVars, idFile, log, procVars, ctlVars, callVars, engineVars,
                   histVars>>

\* The process ends (crash, panic, exit) and a new one is started on the same
\* data directory, with a Controller whose tempId field holds id and whose
\* Config.Recover is rec.
Start(id, rec) ==
    /\ restarts < MaxRestarts
    /\ restarts' = restarts + 1
    /\ proc' = "running"
    /\ initPc' = "start"
    /\ tempId' = id
    /\ recover' = rec
    /\ initErr' = Nil
    /\ storeOpen' = FALSE
    /\ selfJoins' = <<>>
    /\ recoveredConfig' = NoConfig
    /\ meshUp' = FALSE
    /\ raftSet' = FALSE
    /\ fsmInitialized' = FALSE
    /\ bootstrapped' = FALSE
    /\ servers' = <<>>
    /\ clusterLock' = NoThread
    /\ joinPc' = [t \in Threads |-> "idle"]
    /\ joinReq' = [t \in Threads |-> NoRequest]
    /\ removePc' = "idle"
    /\ engineUp' = FALSE
    /\ commitIndex' = 0
    /\ lastApplied' = 0
    /\ restoredIndex' = 0
    /\ pendingReqs' = <<>>
    /\ appliedNow' = <<>>
    /\ lastJoin' = [thread |-> NoThread, path |-> "none"]
    /\ UNCHANGED <<dispatchVars, auxVars, linkVars, minClusterSize, diskVars, joinsLeft, removesLeft,
                   appliedCount, bootstrapOk>>

\* The restart through NewController, lines 40-50: the new Controller's tempId
\* is empty and the configuration is the same.
Restart == Start("", recover)

\* ---------------------------------------------------------------- Dispatch
\* A variant of Dispatch that ignores the outcome of Validate.
ValidationNeverFails(cmd) == FALSE

\* Dispatch, lines 96-100: the command is validatable and Validate fails.
ValidationFails(cmd) == cmd.validatable /\ ~cmd.valid

\* Dispatch, line 102: IsLeader(), lines 83-85.
IsLeader == raftState = "Leader"

\* A variant of Dispatch that takes every reply of the leader for a success.
ReplyResultIgnoresErrors(result) == Nil

\* Dispatch, lines 122-138: the error returned for the leader's reply.
ReplyResult(result) ==
    IF result.ContentType = SuccessResponseType THEN Nil
    ELSE IF result.ContentType = ErrorResponseType
    THEN IF result.ErrorCode = ErrorCodeApiError
         THEN IF result.Body = "json"
              THEN Err("ApiError", result.Body)
              ELSE Err("unable to decode api error response", "")
         ELSE Err("error", result.Body)
    ELSE Err("unexpected response type", result.ContentType)

\* ApplyEncodedCommand, lines 156-167: the error returned for the FSM's answer;
\* for a value that is neither nil nor an error the command is decoded again,
\* only to log it.
ResponseResult(val, decodes) ==
    IF val = "error" THEN Err("fsm", "")
    ELSE IF val = "value" /\ ~decodes THEN Err("decode", "")
    ELSE Nil

\* A variant of Dispatch that turns to the leader when Raft.Apply fails.
ApplyErrorForwards == "connect"

\* ApplyWithTimeout, lines 173-175, and ApplyEncodedCommand, lines 153-155:
\* where Dispatch goes when Raft.Apply fails. It returns.
ApplyErrorReturns == "idle"

\* A caller enters Dispatch (line 95).
DispatchCall(cmd) ==
    /\ Running /\ initPc = "done"
    /\ dPc = "idle" /\ dispatchesLeft > 0
    /\ dispatchesLeft' = dispatchesLeft - 1
    /\ dPc' = "validate"
    /\ dCmd' = cmd
    /\ dPath' = "none"
    /\ dReply' = NoReply
    /\ dVal' = NoResponse
    /\ dRet' = Nil
    /\ validateCalls' = 0
    /\ encodeCalls' = 0
    /\ connectCalls' = 0
    /\ raftApplyCalls' = 0
    /\ sent' = <<>>
    /\ UNCHANGED <<raftVars, auxVars, linkVars, bootVars, cfgVars, diskVars, procVars, ctlVars, callVars,
                   engineVars, histVars>>

\* Dispatch returns err.
DispatchReturn(err) ==
    /\ dPc' = "idle"
    /\ dRet' = err

\* Dispatch, lines 96-100.
DispatchValidate ==
    /\ dPc = "validate"
    /\ validateCalls' = validateCalls + (IF dCmd.validatable THEN 1 ELSE 0)
    /\ IF ValidationFails(dCmd)
       THEN DispatchReturn(Err("validation", dCmd.name))
       ELSE dPc' = "isLeader" /\ UNCHANGED dRet
    /\ UNCHANGED <<raftVars, dCmd, dPath, dReply, dVal, dispatchesLeft, encodeCalls,
                   connectCalls, raftApplyCalls, sent, auxVars, linkVars, bootVars, cfgVars, diskVars,
                   procVars, ctlVars, callVars, engineVars, histVars>>

\* Dispatch, line 102.
DispatchIsLeader ==
    /\ dPc = "isLeader"
    /\ IF IsLeader
       THEN dPc' = "apply" /\ dPath' = "local"
       ELSE dPc' = "connect" /\ dPath' = "forward"
    /\ UNCHANGED <<raftVars, dCmd, dReply, dVal, dRet, dispatchesLeft, dhistVars,
                   auxVars, linkVars, bootVars, cfgVars, diskVars, procVars, ctlVars, callVars, engineVars,
                   histVars>>

\* Dispatch, line 103: applyCommand (lines 142-148), ApplyEncodedCommand (lines
\* 151-168) and ApplyWithTimeout (lines 171-177). Raft.Apply fails when the
\* node is not the leader (any more) or, on the leader, on its timeout;
\* otherwise the entry joins the log and the FSM's answer comes back.
DispatchApply ==
    /\ dPc = "apply"
    /\ IF ~dCmd.encodable
       THEN /\ encodeCalls' = encodeCalls + 1
            /\ DispatchReturn(Err("encode", dCmd.name))
            /\ UNCHANGED <<raftApplyCalls, log, dVal>>
       ELSE /\ encodeCalls' = encodeCalls + 1
            /\ raftApplyCalls' = raftApplyCalls + 1
            /\ \/ /\ dPc' = ApplyErrorReturns
                  /\ dRet' = Err("raft", IF IsLeader THEN "timeout" ELSE "not leader")
                  /\ UNCHANGED <<log, dVal>>
               \/ /\ raftState = "Leader"
                  /\ log' = Append(log, "cmd")
                  /\ \E val \in FsmResponses, decodes \in BOOLEAN :
                        /\ dVal' = val
                        /\ DispatchReturn(ResponseResult(val, decodes))
    /\ UNCHANGED <<raftVars, dCmd, dPath, dReply, dispatchesLeft, validateCalls,
                   connectCalls, sent, auxVars, linkVars, bootVars, cfgVars, idFile, snapIndex, procVars,
                   ctlVars, callVars, engineVars, histVars>>

\* Dispatch, lines 106-109: GetLeaderAddr (lines 88-91) and GetOrConnectPeer,
\* which fails when there is no leader or it cannot be reached in 5 s.
DispatchConnect ==
    /\ dPc = "connect"
    /\ connectCalls' = connectCalls + 1
    /\ \/ /\ DispatchReturn(Err("connect", leaderAddr))
       \/ /\ leaderAddr # NoLeader
          /\ dPc' = "send"
          /\ UNCHANGED dRet
    /\ UNCHANGED <<raftVars, dCmd, dPath, dReply, dVal, dispatchesLeft, validateCalls,
                   encodeCalls, raftApplyCalls, sent, auxVars, linkVars, bootVars, cfgVars, diskVars,
                   procVars, ctlVars, callVars, engineVars, histVars>>

\* Dispatch, lines 111-139: the command is encoded and sent to the leader in
\* one NewLogEntryType request; the reply, or the 5 s timeout, decides the
\* result.
DispatchSend ==
    /\ dPc = "send"
    /\ encodeCalls' = encodeCalls + 1
    /\ IF ~dCmd.encodable
       THEN /\ DispatchReturn(Err("encode", dCmd.name))
            /\ UNCHANGED <<sent, dReply>>
       ELSE /\ sent' = Append(sent, [ContentType |-> NewLogEntryType,
                                    Body |-> Encode(dCmd)])
            /\ \/ /\ DispatchReturn(Err("send", ""))
                  /\ UNCHANGED dReply
               \/ \E result \in Replies :
                    /\ dReply' = result
                    /\ DispatchReturn(ReplyResult(result))
    /\ UNCHANGED <<raftVars, dCmd, dPath, dVal, dispatchesLeft, validateCalls,
                   connectCalls, raftApplyCalls, auxVars, linkVars, bootVars, cfgVars, diskVars, procVars,
                   ctlVars, callVars, engineVars, histVars>>

\* The consensus group elects: this node gains or loses leadership, and the
\* leader it knows changes (NoLeader while there is none).
LeaderChange ==
    /\ \E st \in {"Follower", "Leader"}, addr \in {NoLeader, LeaderAddress} :
        /\ <<st, addr>> # <<raftState, leaderAddr>>
        /\ st = "Leader" => addr = NoLeader
        /\ raftState' = st
        /\ leaderAddr' = addr
    /\ UNCHANGED <<dispVars, dhistVars, auxVars, linkVars, bootVars, cfgVars, diskVars, procVars, ctlVars,
                   callVars, engineVars, histVars>>

\* ---------------------------------------------------------------- the link wire codec
\* A buffer of n zero bytes.
Zeros(n) == [i \in 1..n |-> 0]

\* The v & 0xff... of binary.BigEndian: the n bytes of v, high byte first.
BigEndian(v, n) == [i \in 1..n |-> (v \div 256^(n - i)) % 256]

\* binary.Write(data, binary.LittleEndian, v) for an n-byte integer v (lines
\* 192, 196, 199 and 102): the n bytes of v in two's complement, low byte first.
LittleEndian(v, n) == [i \in 1..n |-> (v \div 256^(i - 1)) % 256]

\* readInt32, lines 254-258: binary.Read of a little-endian int32 from the
\* front of data; an error when data has fewer than 4 bytes.
readInt32(data) ==
    IF Len(data) < 4 THEN [ret |-> 0, err |-> "EOF"]
    ELSE [ret |-> data[1] + 256 * data[2] + 65536 * data[3]
                  + 16777216 * (IF data[4] >= 128 THEN data[4] - 256 ELSE data[4]),
          err |-> ""]

\* readUint16, lines 260-264.
readUint16(data) ==
    IF Len(data) < 2 THEN [ret |-> 0, err |-> "EOF"]
    ELSE [ret |-> data[1] + 256 * data[2], err |-> ""]

\* A variant of the size check that compares the payload, not the frame,
\* with mss.
MessageTooLongCountsPayload(n) == n - messageSectionLength > mss

\* encodeMessage, line 209: the frame is longer than mss.
MessageTooLong(n) == n > mss

\* encodeMessage, lines 188-214.
encodeMessage(m) ==
    LET data == magicV1
                \o LittleEndian(m.sequence, 4)
                \o <<m.fragment, m.ofFragments, m.messageType % 256>>
                \o LittleEndian(0, 2)
                \o LittleEndian(Len(m.payload) % 2^16, 2)
                \o m.payload
        n == Len(data)
    IN  IF MessageTooLong(n)
        THEN [data |-> <<>>, err |-> "message too long"]
        ELSE [data |-> data, err |-> ""]

\* A variant of the magic check that looks at the first byte only.
BadMagicFirstByte(data) == data[1] # magicV1[1]

\* decodeMessage, lines 221-225.
BadMagic(data) == \E i \in 1..Len(magicV1) : data[i] # magicV1[i]

\* The Go slice data[lo:hi] of a buffer whose bytes past len(data), up to its
\* capacity, are zero (a buffer fresh from make).
Slice(data, lo, hi) ==
    [i \in 1..(hi - lo) |-> IF lo + i <= Len(data) THEN data[lo + i] ELSE 0]

\* decodeMessage, lines 216-252, on a buffer of the given capacity. The slice
\* bounds of line 249 are uint16 sums; m.payloadLength is never assigned.
decodeMessage(data, capacity) ==
    IF Len(data) < messageSectionLength THEN Returned(NilMessage, "short read")
    ELSE IF BadMagic(data) THEN Returned(NilMessage, "bad magic")
    ELSE LET sequence == readInt32(SubSeq(data, 5, 8))
             headersLength == readUint16(SubSeq(data, 12, 13))
             payloadLength == readUint16(SubSeq(data, 14, 15))
             lo == (15 + headersLength.ret) % 2^16
             hi == (15 + headersLength.ret + payloadLength.ret) % 2^16
         IN  IF sequence.err # "" THEN Returned(NilMessage, "error reading sequence")
             ELSE IF headersLength.err # ""
             THEN Returned(NilMessage, "error reading headers length")
             ELSE IF headersLength.ret # 0 THEN Returned(NilMessage, "headers error")
             ELSE IF payloadLength.err # ""
             THEN Returned(NilMessage, "error reading payload length")
             ELSE IF hi < lo \/ hi > capacity THEN Panicked
             ELSE Returned(Ref([sequence |-> sequence.ret,
                                fragment |-> data[9],
                                ofFragments |-> data[10],
                                messageType |-> data[11],
                                headersLength |-> headersLength.ret,
                                payloadLength |-> ZeroMessage.payloadLength,
                                payload |-> Slice(data, lo, hi)]), "")

\* readMessage, lines 130-144: one ReadFromUDP into a buffer of MaxPacketSize
\* bytes, then decodeMessage(data[:n]).
readMessage(datagram, readErr) ==
    IF readErr THEN Returned(NilMessage, "i/o timeout")
    ELSE LET r == decodeMessage(datagram, MaxPacketSize) IN
         IF r.panic \/ r.err = "" THEN r
         ELSE Returned(NilMessage, "error decoding message (" \o r.err \o ")")

\* A variant of the sequence check of handleHello that accepts any sequence.
HelloSequenceAny(m) == TRUE

\* handleHello, line 150.
HelloSequence(m) == m.sequence = -1

\* handleHello, line 153, and handleMessage, line 172.
SingleFragment(m) == m.fragment = 0 /\ m.ofFragments = 1

\* handleHello, lines 146-167: the error returned and the HandleHello
\* callbacks made (their linkId tokens).
handleHello(m) ==
    IF m.nil THEN [panic |-> FALSE, err |-> "nil message", hello |-> <<>>]
    ELSE IF m.val.messageType = Hello
    THEN IF ~HelloSequence(m.val)
         THEN [panic |-> FALSE, err |-> "hello expects sequence -1", hello |-> <<>>]
         ELSE IF ~SingleFragment(m.val)
         THEN [panic |-> FALSE, err |-> "hello expects single fragment", hello |-> <<>>]
         ELSE [panic |-> FALSE, err |-> "", hello |-> <<m.val.payload>>]
    ELSE [panic |-> FALSE, err |-> "expected hello", hello |-> <<>>]

\* handleMessage, lines 169-186: the error returned and the HandlePing
\* callbacks made; m.messageType on a nil m is a nil dereference.
handleMessage(m) ==
    IF m.nil THEN [panic |-> TRUE, err |-> "", ping |-> <<>>]
    ELSE IF m.val.messageType = Ping
    THEN IF ~SingleFragment(m.val)
         THEN [panic |-> FALSE, err |-> "ping expects single fragment", ping |-> <<>>]
         ELSE LET replyFor == readInt32(m.val.payload) IN
              IF replyFor.err # ""
              THEN [panic |-> FALSE, err |-> "ping expects replyFor in payload",
                    ping |-> <<>>]
              ELSE [panic |-> FALSE, err |-> "",
                    ping |-> <<[sequence |-> m.val.sequence, replyFor |-> replyFor.ret]>>]
    ELSE [panic |-> FALSE, err |-> "unexpected message type", ping |-> <<>>]

\* The message literal of writeHello (lines 76-84) and writePing (lines
\* 106-114): headersLength 0, payloadLength uint16(payload.Len()).
NewMessage(sequence, fragment, ofFragments, messageType, payload) ==
    [sequence |-> sequence, fragment |-> fragment, ofFragments |-> ofFragments,
     messageType |-> messageType, headersLength |-> 0,
     payloadLength |-> Len(payload) % 2^16, payload |-> payload]

\* writeHello, lines 73-84: the Hello for a token.
HelloMessage(token) == NewMessage(-1, 0, 1, Hello, token)

\* writePing, lines 101-114: the Ping for a sequence and a replyFor.
PingMessage(sequence, replyFor) ==
    NewMessage(sequence, 0, 1, Ping, LittleEndian(replyFor, 4))

\* The token "abc" as bytes.
TokenAbc == <<97, 98, 99>>

\* The messages put to the codec: sequences around -1 and at the ends of
\* int32, fragment fields, the four message types and some more, payloads
\* of 0, 3, 4 and 5 bytes, at and over the limit of mss, and over 2^16.
SequenceNumbers == {MinInt32, MaxInt32} \cup (-1..MaxSequence)
Payloads ==
    {<<>>, TokenAbc, LittleEndian(noReplyFor, 4), <<1, 0, 0, 128>>, <<7, 0, 0, 0, 9>>,
     Zeros(mss - messageSectionLength), Zeros(mss - messageSectionLength + 1),
     Zeros(2^16 + 3)}
Messages ==
    {NewMessage(sq, fr, of, mt, pl) :
        sq \in SequenceNumbers, fr \in 0..MaxFragment, of \in 1..(MaxFragment + 1),
        mt \in 0..MaxMessageType, pl \in Payloads}

\* What can arrive in place of a frame: the frame, a prefix of it, or the
\* frame with one byte or one 16-bit header field changed.
Damages ==
    {[kind |-> "none", at |-> 0, to |-> 0]}
    \cup {[kind |-> "truncate", at |-> k, to |-> 0] : k \in {0, 3, messageSectionLength - 1}}
    \cup {[kind |-> "byte", at |-> i, to |-> b] : i \in 1..Len(magicV1), b \in {3, 255}}
    \cup {[kind |-> "uint16", at |-> 12, to |-> v] : v \in {1, 256}}
    \cup {[kind |-> "uint16", at |-> 14, to |-> v] : v \in {0, 5, 2^16 - 1}}

Damaged(frame, dmg) ==
    CASE dmg.kind = "none" -> frame
      [] dmg.kind = "truncate" -> SubSeq(frame, 1, dmg.at)
      [] dmg.kind = "byte" -> [frame EXCEPT ![dmg.at] = dmg.to]
      [] dmg.kind = "uint16" ->
            [frame EXCEPT ![dmg.at] = dmg.to % 256, ![dmg.at + 1] = dmg.to \div 256]

\* encodeMessage is called on the message in hand.
EncodeMessage ==
    /\ cPc = "start"
    /\ cEnc' = encodeMessage(cMsg)
    /\ cPc' = (IF cEnc'.err = "" THEN "encoded" ELSE "done")
    /\ UNCHANGED <<cMsg, cData, cDec, hIn, hRet, helloCalls, pingCalls,
                   auxVars, shakeVars, bootVars, cfgVars, diskVars, procVars, ctlVars, callVars,
                   engineVars, histVars, dispatchVars>>

\* decodeMessage is called on the frame encodeMessage returned.
DecodeMessage ==
    /\ cPc = "encoded"
    /\ cData' = cEnc.data
    /\ cDec' = decodeMessage(cEnc.data, Len(cEnc.data))
    /\ cPc' = (IF cDec'.panic THEN "panicked" ELSE "decoded")
    /\ UNCHANGED <<cMsg, cEnc, hIn, hRet, helloCalls, pingCalls,
                   auxVars, shakeVars, bootVars, cfgVars, diskVars, procVars, ctlVars, callVars,
                   engineVars, histVars, dispatchVars>>

\* The frame is written to the socket (WriteToUDP, lines 93 and 123) and a
\* datagram reaches the peer's socket: the frame, or other content.
Datagram(dmg) ==
    /\ cPc = "encoded"
    /\ cData' = Damaged(cEnc.data, dmg)
    /\ cPc' = "sent"
    /\ UNCHANGED <<cMsg, cEnc, cDec, hIn, hRet, helloCalls, pingCalls,
                   auxVars, shakeVars, bootVars, cfgVars, diskVars, procVars, ctlVars, callVars,
                   engineVars, histVars, dispatchVars>>

\* readMessage is called on the socket.
ReadMessage ==
    /\ cPc = "sent"
    /\ \E readErr \in BOOLEAN : cDec' = readMessage(cData, readErr)
    /\ cPc' = (IF cDec'.panic THEN "panicked" ELSE "received")
    /\ UNCHANGED <<cMsg, cEnc, cData, hIn, hRet, helloCalls, pingCalls,
                   auxVars, shakeVars, bootVars, cfgVars, diskVars, procVars, ctlVars, callVars,
                   engineVars, histVars, dispatchVars>>

\* The messages a handler can be given: the message in hand or nil before
\* anything was sent, else what decodeMessage or readMessage returned.
HandlerInputs ==
    IF cPc = "start" THEN {Ref(cMsg), NilMessage}
    ELSE IF cPc \in {"decoded", "received"} THEN {cDec.m}
    ELSE {}

\* handleHello is called.
HandleHello ==
    /\ \E m \in HandlerInputs :
        /\ hIn' = m
        /\ hRet' = [panic |-> handleHello(m).panic, err |-> handleHello(m).err]
        /\ helloCalls' = helloCalls \o handleHello(m).hello
    /\ cPc' = "handledHello"
    /\ UNCHANGED <<cMsg, cEnc, cData, cDec, pingCalls,
                   auxVars, shakeVars, bootVars, cfgVars, diskVars, procVars, ctlVars, callVars,
                   engineVars, histVars, dispatchVars>>

\* handleMessage is called on a message.
HandleMessage ==
    /\ \E m \in HandlerInputs :
        /\ ~m.nil
        /\ hIn' = m
        /\ hRet' = [panic |-> handleMessage(m).panic, err |-> handleMessage(m).err]
        /\ pingCalls' = pingCalls \o handleMessage(m).ping
    /\ cPc' = "handledMessage"
    /\ UNCHANGED <<cMsg, cEnc, cData, cDec, helloCalls,
                   auxVars, shakeVars, bootVars, cfgVars, diskVars, procVars, ctlVars, callVars,
                   engineVars, histVars, dispatchVars>>

\* ---------------------------------------------------------------- link establishment
\* writeHello, lines 76-97, and writePing, lines 106-127, from the message on:
\* encodeMessage, SetWriteDeadline, one WriteToUDP. The error returned, the
\* socket writes made and the datagram written.
writeMessage(m, deadlineErr, writeErr) ==
    LET e == encodeMessage(m) IN
    IF e.err # "" THEN [err |-> "error creating message", writes |-> 0, data |-> <<>>]
    ELSE IF deadlineErr
    THEN [err |-> "unable to set write deadline", writes |-> 0, data |-> <<>>]
    ELSE IF writeErr THEN [err |-> "write", writes |-> 1, data |-> <<>>]
    ELSE [err |-> "", writes |-> 1, data |-> e.data]

\* writeHello, lines 72-98.
writeHello(token, deadlineErr, writeErr) ==
    writeMessage(HelloMessage(token), deadlineErr, writeErr)

\* A variant of writePing that writes a second time when the write fails.
writePingRetrying(sequence, replyFor, deadlineErr, writeErr) ==
    LET w == writeMessage(PingMessage(sequence, replyFor), deadlineErr, writeErr) IN
    IF w.err = "write" THEN [w EXCEPT !.writes = 2] ELSE w

\* writePing, lines 100-128.
writePing(sequence, replyFor, deadlineErr, writeErr) ==
    writeMessage(PingMessage(sequence, replyFor), deadlineErr, writeErr)

\* The tokens of the local identity: "abc", and one too long for a frame.
Tokens == {TokenAbc, Zeros(mss)}

\* What the peer can answer: Pings with some sequence and replyFor, a Hello,
\* and damaged frames of these.
PeerMessages ==
    {PingMessage(sq, rf) : sq \in 0..MaxSequence, rf \in -1..MaxSequence}
    \cup {HelloMessage(TokenAbc)}
PeerDatagrams ==
    {Damaged(encodeMessage(m).data, dmg) : m \in PeerMessages, dmg \in Damages}

\* The states of a link-establishment attempt.
LinkStates == {"Idle", "HelloSent", "AwaitingPingExchange", "Established", "Failed"}

\* The attempt starts: the Hello with the local token is sent.
LinkSendHello ==
    /\ linkPc = "running" /\ linkState = "Idle"
    /\ \E token \in Tokens, deadlineErr \in BOOLEAN, writeErr \in BOOLEAN :
        LET w == writeHello(token, deadlineErr, writeErr) IN
        /\ socketWrites' = socketWrites + w.writes
        /\ helloWritten' = (w.err = "")
        /\ linkState' = (IF w.err = "" THEN "HelloSent" ELSE "Failed")
    /\ sendCalls' = sendCalls + 1
    /\ UNCHANGED <<linkPc, lSeq, lWire, pingWritten, pingReplied, socketReads,
                   receiveCalls, auxVars, codecVars, bootVars, cfgVars, diskVars, procVars, ctlVars,
                   callVars, engineVars, histVars, dispatchVars>>

\* The Ping that opens the ping exchange is sent.
LinkSendPing ==
    /\ linkPc = "running" /\ linkState = "HelloSent"
    /\ \E sequence \in 0..MaxSequence, deadlineErr \in BOOLEAN, writeErr \in BOOLEAN :
        LET w == writePing(sequence, noReplyFor, deadlineErr, writeErr) IN
        /\ lSeq' = sequence
        /\ socketWrites' = socketWrites + w.writes
        /\ pingWritten' = (w.err = "")
        /\ linkState' = (IF w.err = "" THEN "AwaitingPingExchange" ELSE "Failed")
    /\ sendCalls' = sendCalls + 1
    /\ UNCHANGED <<linkPc, lWire, helloWritten, pingReplied, socketReads,
                   receiveCalls, auxVars, codecVars, bootVars, cfgVars, diskVars, procVars, ctlVars,
                   callVars, engineVars, histVars, dispatchVars>>

\* A datagram of the peer reaches the socket.
LinkDatagram(d) ==
    /\ linkPc = "running" /\ linkState = "AwaitingPingExchange"
    /\ lWire = <<>>
    /\ lWire' = <<d>>
    /\ UNCHANGED <<linkState, linkPc, lSeq, helloWritten, pingWritten, pingReplied,
                   socketWrites, socketReads, sendCalls, receiveCalls,
                   auxVars, codecVars, bootVars, cfgVars, diskVars, procVars, ctlVars,
                   callVars, engineVars, histVars, dispatchVars>>

\* The attempt waits for the answer to its Ping: readMessage (lines 130-144,
\* with the read deadline of lines 132-134), then handleMessage; the exchange
\* is complete when the peer's Ping replies to the Ping sent.
LinkReceive ==
    /\ linkPc = "running" /\ linkState = "AwaitingPingExchange"
    /\ \E deadlineErr \in BOOLEAN :
        LET r == IF deadlineErr THEN Returned(NilMessage, "error setting read deadline")
                 ELSE IF lWire = <<>> THEN readMessage(<<>>, TRUE)
                 ELSE readMessage(lWire[1], FALSE)
            replied == /\ ~r.panic /\ r.err = ""
                       /\ handleMessage(r.m).err = ""
                       /\ handleMessage(r.m).ping[1].replyFor = lSeq
        IN  /\ socketReads' = socketReads + (IF deadlineErr THEN 0 ELSE 1)
            /\ lWire' = (IF deadlineErr THEN lWire ELSE <<>>)
            /\ linkPc' = (IF r.panic THEN "panicked" ELSE linkPc)
            /\ pingReplied' = replied
            /\ linkState' = (IF r.panic THEN linkState
                             ELSE IF replied THEN "Established" ELSE "Failed")
    /\ receiveCalls' = receiveCalls + 1
    /\ UNCHANGED <<lSeq, helloWritten, pingWritten, socketWrites, sendCalls,
                   auxVars, codecVars, bootVars, cfgVars, diskVars, procVars, ctlVars,
                   callVars, engineVars, histVars, dispatchVars>>

\* ---------------------------------------------------------------- a cluster of controllers
\* Join, lines 279-322, as a function of a controller's fields (c), the
\* request and the outcome of BootstrapCluster: the fields afterwards. The
\* pending list is the controller's own; HandleJoin works through the
\* consensus group and leaves these fields alone.
NodeAfterJoin(c, req, bootOk) ==
    LET appended == Append(c.servers, JoinServer(req)) IN
    IF ~ValidRequest(req) THEN c
    ELSE IF c.bootstrapped \/ c.lastIndex > 0 THEN c
    ELSE IF ~ReachedClusterSize(appended) THEN [c EXCEPT !.servers = appended]
    ELSE IF bootOk
    THEN [c EXCEPT !.servers = appended, !.bootstrapped = TRUE,
                   !.config = appended, !.lastIndex = 1]
    ELSE [c EXCEPT !.servers = appended]

\* Controller n runs Join for a request: its own self join (Init, lines
\* 266-271) or one that a peer sent to its mesh join handler.
NodeJoin(n, req) ==
    /\ cluster[n].joinsLeft > 0
    /\ \E bootOk \in BOOLEAN :
        cluster' = [cluster EXCEPT ![n] =
                      [NodeAfterJoin(cluster[n], req, bootOk) EXCEPT !.joinsLeft = @ - 1]]
    /\ UNCHANGED <<traceVars, linkVars, bootVars, cfgVars, diskVars, procVars, ctlVars,
                   callVars, engineVars, histVars, dispatchVars>>

\* The consensus group that controller m bootstrapped reaches controller n,
\* a member of m's configuration: n's log gets its first entries.
NodeReplicate(m, n) ==
    /\ m # n
    /\ cluster[m].bootstrapped
    /\ \E i \in 1..Len(cluster[m].config) : cluster[m].config[i].ID = n
    /\ cluster[n].lastIndex = 0
    /\ cluster' = [cluster EXCEPT ![n].lastIndex = 1]
    /\ UNCHANGED <<traceVars, linkVars, bootVars, cfgVars, diskVars, procVars, ctlVars,
                   callVars, engineVars, histVars, dispatchVars>>

\* ---------------------------------------------------------------- the trace peek handler
\* enable, lines 77-79: the flag is set whatever the argument.
enable(enabled) == TRUE

\* ToggleTracing, lines 51-63, for a matcher that matches the channel or not:
\* the flag afterwards, and the result sent on resultChan with the old and
\* the new trace state of its message.
ToggleTracing(matched, enabled) ==
    /\ tEnabled' = (IF matched THEN enable(enabled) ELSE tEnabled)
    /\ tResult' = [matched |-> matched, enable |-> enabled, prevState |-> tEnabled,
                   nextState |-> (IF matched THEN enabled ELSE tEnabled), sent |-> TRUE]
    /\ UNCHANGED <<tPc, tMsg, tQueue, tSinks, tBudget, tLast, peerVars, linkVars, bootVars,
                   cfgVars, diskVars, procVars, ctlVars, callVars, engineVars, histVars,
                   dispatchVars>>

\* The channel's rx goroutine has read a message from the peer and calls Rx
\* (lines 88-90).
ChannelReceive(ct) ==
    /\ tPc["rx"] = "idle" /\ tBudget > 0
    /\ tBudget' = tBudget - 1
    /\ tPc' = [tPc EXCEPT !["rx"] = "peek"]
    /\ tMsg' = [tMsg EXCEPT !["rx"] = ct]
    /\ UNCHANGED <<tResult, tLast, tEnabled, tQueue, tSinks, peerVars, linkVars, bootVars, cfgVars,
                   diskVars, procVars, ctlVars, callVars, engineVars, histVars, dispatchVars>>

\* A goroutine of the application sends a message: Send waits while the
\* outbound queue is full.
ChannelSend(ct) ==
    /\ tBudget > 0 /\ Len(tQueue) < MaxQueue
    /\ tBudget' = tBudget - 1
    /\ tQueue' = Append(tQueue, ct)
    /\ UNCHANGED <<tResult, tLast, tEnabled, tPc, tMsg, tSinks, peerVars, linkVars, bootVars, cfgVars,
                   diskVars, procVars, ctlVars, callVars, engineVars, histVars, dispatchVars>>

\* The channel's tx goroutine takes the next message of the queue and calls
\* Tx (lines 92-94) before it writes it.
ChannelTransmit ==
    /\ tPc["tx"] = "idle" /\ tQueue # <<>>
    /\ tPc' = [tPc EXCEPT !["tx"] = "peek"]
    /\ tMsg' = [tMsg EXCEPT !["tx"] = Head(tQueue)]
    /\ tQueue' = Tail(tQueue)
    /\ UNCHANGED <<tResult, tLast, tEnabled, tSinks, tBudget, peerVars, linkVars, bootVars, cfgVars,
                   diskVars, procVars, ctlVars, callVars, engineVars, histVars, dispatchVars>>

\* A variant of the test that lets trace events through to the sink.
TraceSkipsWhenDisabled(ct) == ~tEnabled

\* trace, lines 101-104: tracing is off, or the message is itself a trace
\* event.
TraceSkips(ct) == ~tEnabled \/ ct = TraceEventType \/ ct = StreamTracesEventType

\* trace, lines 100-127: the message is skipped and trace returns, or the
\* event is built and a goroutine is started for eventSink.Accept.
Trace(d) ==
    /\ tPc[d] = "peek"
    /\ tLast' = [contentType |-> tMsg[d], enabled |-> tEnabled,
                 published |-> ~TraceSkips(tMsg[d])]
    /\ IF TraceSkips(tMsg[d])
       THEN /\ tPc' = [tPc EXCEPT ![d] = "idle"]
            /\ tMsg' = [tMsg EXCEPT ![d] = NoType]
            /\ UNCHANGED tSinks
       ELSE /\ tPc' = [tPc EXCEPT ![d] = "spawned"]
            /\ tSinks' = Append(tSinks, [pc |-> "accept", from |-> d])
            /\ UNCHANGED tMsg
    /\ UNCHANGED <<tResult, tEnabled, tQueue, tBudget, peerVars, linkVars, bootVars, cfgVars,
                   diskVars, procVars, ctlVars, callVars, engineVars, histVars, dispatchVars>>

\* A variant of trace that calls eventSink.Accept itself: it returns when the
\* sink has.
ReturnsAfterAccept(d) == \A i \in 1..Len(tSinks) : tSinks[i].from = d => tSinks[i].pc = "done"

\* trace, lines 127-128: Accept runs in the goroutine started by the go
\* statement, so trace returns whatever the sink does.
ReturnsAtOnce(d) == TRUE

\* trace, line 128: trace, and with it Rx or Tx, returns.
TraceReturn(d) ==
    /\ tPc[d] = "spawned"
    /\ ReturnsAtOnce(d)
    /\ tPc' = [tPc EXCEPT ![d] = "idle"]
    /\ tMsg' = [tMsg EXCEPT ![d] = NoType]
    /\ UNCHANGED <<tResult, tLast, tEnabled, tQueue, tSinks, tBudget, peerVars, linkVars, bootVars, cfgVars,
                   diskVars, procVars, ctlVars, callVars, engineVars, histVars, dispatchVars>>

\* channelSink.Accept, lines 138-147: the event is marshalled; a failure is
\* logged and ends the goroutine.
SinkAccept(i) ==
    /\ i \in 1..Len(tSinks) /\ tSinks[i].pc = "accept"
    /\ \E ok \in BOOLEAN :
        tSinks' = [tSinks EXCEPT ![i].pc = IF ok THEN "send" ELSE "done"]
    /\ UNCHANGED <<tResult, tLast, tEnabled, tPc, tMsg, tQueue, tBudget, peerVars, linkVars, bootVars, cfgVars,
                   diskVars, procVars, ctlVars, callVars, engineVars, histVars, dispatchVars>>

\* channelSink.Accept, lines 149-154: the trace event is sent over the
\* channel; Send waits while the outbound queue is full, and may fail.
SinkSend(i) ==
    /\ i \in 1..Len(tSinks) /\ tSinks[i].pc = "send"
    /\ \/ /\ Len(tQueue) < MaxQueue
          /\ tQueue' = Append(tQueue, TraceEventType)
       \/ UNCHANGED tQueue
    /\ tSinks' = [tSinks EXCEPT ![i].pc = "done"]
    /\ UNCHANGED <<tResult, tLast, tEnabled, tPc, tMsg, tBudget, peerVars, linkVars, bootVars, cfgVars,
                   diskVars, procVars, ctlVars, callVars, engineVars, histVars, dispatchVars>>

\* ---------------------------------------------------------------- the system
\* Controller.Init, lines 180-276, up to its self join.
InitSteps ==
    \/ InitId
    \/ InitStorage
    \/ InitMesh
    \/ InitFsm
    \/ InitRecover
    \/ InitNewRaft
    \/ InitSetInitialized
    \/ InitSetRaft
    \/ InitCheckIndex

\* Startup and cluster membership: Init, the Join calls of Init and of the mesh
\* join handler, RemoveServer, entries reaching the log, restarts.
Next ==
    \/ InitSteps
    \/ \E t \in Threads, req \in JoinRequests \cup {SelfJoinRequest} : JoinLock(t, req)
    \/ \E t \in Threads : JoinBody(t)
    \/ \E id \in ReqIds : RemoveServerStart(id)
    \/ RemoveServerEnd
    \/ EngineAppend
    \/ Restart

Spec == Init /\ [][Next]_vars

\* Startup and the engine's use of the FSM: Init with its self join, and the
\* engine's log, commit, apply and snapshot steps, across restarts.
NextReplay ==
    \/ InitSteps
    \/ JoinLock("init", SelfJoinRequest)
    \/ JoinHandle("init")
    \/ JoinAccumulate("init")
    \/ JoinBootstrap("init")
    \/ EngineAppend
    \/ EngineCommit
    \/ EngineApply
    \/ EngineSnapshot
    \/ Restart

SpecReplay == Init /\ [][NextReplay]_vars

\* A first start on an empty data directory by a Controller whose tempId may
\* have been supplied.
InitStartup ==
    /\ minClusterSize \in 0..MaxClusterSize
    /\ recover \in BOOLEAN
    /\ idFile = NoFile
    /\ log = <<>>
    /\ snapIndex = 0
    /\ restarts = 0
    /\ tempId \in SuppliedIds
    /\ FreshController
    /\ lastJoin = [thread |-> NoThread, path |-> "none"]
    /\ joinsLeft = MaxJoins
    /\ removesLeft = MaxRemoves
    /\ appliedCount = [i \in 1..MaxLog |-> 0]
    /\ bootstrapOk = 0
    /\ DispatchIdle
    /\ CodecIdle
    /\ LinkIdle
    /\ ClusterIdle
    /\ TraceIdle

\* Startups of one node on the same data directory, one after the other: Init
\* with its self join, entries reaching the log while the engine runs, and
\* the next start with the id and the recover flag its caller chose.
NextStartup ==
    \/ InitSteps
    \/ JoinLock("init", SelfJoinRequest)
    \/ JoinHandle("init")
    \/ JoinAccumulate("init")
    \/ JoinBootstrap("init")
    \/ EngineAppend
    \/ \E id \in SuppliedIds, rec \in BOOLEAN : Start(id, rec)

SpecStartup == InitStartup /\ [][NextStartup]_vars

\* A started controller whose cluster is bootstrapped: the state in which
\* callers use Dispatch.
InitDispatch ==
    /\ restarts = 0
    /\ minClusterSize = 1
    /\ recover = FALSE
    /\ idFile = "n0"
    /\ log = <<"cfg">>
    /\ snapIndex = 0
    /\ proc = "running"
    /\ initPc = "done"
    /\ tempId = "n0"
    /\ meshUp = TRUE
    /\ raftSet = TRUE
    /\ fsmInitialized = TRUE
    /\ bootstrapped = TRUE
    /\ servers = <<JoinServer([Id |-> "n0", Addr |-> AdvertiseAddress, IsVoter |-> TRUE]),
                   JoinServer([Id |-> "a", Addr |-> "x", IsVoter |-> FALSE])>>
    /\ clusterLock = NoThread
    /\ joinPc = [t \in Threads |-> "idle"]
    /\ joinReq = [t \in Threads |-> NoRequest]
    /\ lastJoin = [thread |-> "peer", path |-> "bootstrapOk"]
    /\ joinsLeft = MaxJoins - 1
    /\ removePc = "idle"
    /\ removesLeft = MaxRemoves
    /\ engineUp = TRUE
    /\ commitIndex = 0
    /\ lastApplied = 0
    /\ restoredIndex = 0
    /\ pendingReqs = <<[Id |-> "n0", Addr |-> AdvertiseAddress, IsVoter |-> TRUE],
                       [Id |-> "a", Addr |-> "x", IsVoter |-> FALSE]>>
    /\ appliedNow = <<>>
    /\ appliedCount = [i \in 1..MaxLog |-> 0]
    /\ bootstrapOk = 1
    /\ initErr = Nil
    /\ storeOpen = TRUE
    /\ selfJoins = <<[Id |-> "n0", Addr |-> AdvertiseAddress, IsVoter |-> TRUE]>>
    /\ recoveredConfig = NoConfig
    /\ DispatchIdle
    /\ CodecIdle
    /\ LinkIdle
    /\ ClusterIdle
    /\ TraceIdle

\* Dispatch on a running controller, with leadership changing under it.
NextDispatch ==
    \/ \E cmd \in Commands : DispatchCall(cmd)
    \/ DispatchValidate
    \/ DispatchIsLeader
    \/ DispatchApply
    \/ DispatchConnect
    \/ DispatchSend
    \/ LeaderChange

SpecDispatch == InitDispatch /\ [][NextDispatch]_vars

\* A controller process that nobody uses: the link layer of a router runs
\* without it.
ControllerUnused ==
    /\ minClusterSize = 0
    /\ recover = FALSE
    /\ idFile = NoFile
    /\ log = <<>>
    /\ snapIndex = 0
    /\ restarts = 0
    /\ FreshProcess
    /\ lastJoin = [thread |-> NoThread, path |-> "none"]
    /\ joinsLeft = MaxJoins
    /\ removesLeft = MaxRemoves
    /\ appliedCount = [i \in 1..MaxLog |-> 0]
    /\ bootstrapOk = 0
    /\ DispatchIdle

\* The codec and the handlers put to a message.
InitCodec ==
    /\ ControllerUnused
    /\ cPc = "start"
    /\ cMsg \in Messages
    /\ cEnc = NoFrame
    /\ cData = <<>>
    /\ cDec = NoResult
    /\ hIn = NilMessage
    /\ hRet = NoReturn
    /\ helloCalls = <<>>
    /\ pingCalls = <<>>
    /\ LinkIdle
    /\ ClusterIdle
    /\ TraceIdle

NextCodec ==
    \/ EncodeMessage
    \/ DecodeMessage
    \/ \E dmg \in Damages : Datagram(dmg)
    \/ ReadMessage
    \/ HandleHello
    \/ HandleMessage

SpecCodec == InitCodec /\ [][NextCodec]_vars

\* One link-establishment attempt of a router towards a peer.
InitHandshake ==
    /\ ControllerUnused
    /\ CodecIdle
    /\ LinkIdle
    /\ ClusterIdle
    /\ TraceIdle

NextHandshake ==
    \/ LinkSendHello
    \/ LinkSendPing
    \/ \E d \in PeerDatagrams : LinkDatagram(d)
    \/ LinkReceive

SpecHandshake == InitHandshake /\ [][NextHandshake]_vars

\* Controllers configured alike, each running Join for the requests it
\* receives.
InitCluster ==
    /\ Init
    /\ recover = FALSE

NextCluster ==
    \/ \E n \in Nodes, req \in NodeRequests : NodeJoin(n, req)
    \/ \E m \in Nodes, n \in Nodes : NodeReplicate(m, n)

SpecCluster == InitCluster /\ [][NextCluster]_vars

\* A channel with the peek handler bound: messages in both directions,
\* tracing switched on, and the sink's goroutines. The goroutines of the
\* channel run when they can; nothing is assumed of the sink's.
InitTrace ==
    /\ ControllerUnused
    /\ CodecIdle
    /\ LinkIdle
    /\ ClusterIdle
    /\ TraceIdle

NextTrace ==
    \/ \E matched \in BOOLEAN, enabled \in BOOLEAN : ToggleTracing(matched, enabled)
    \/ \E ct \in ContentTypes : ChannelReceive(ct)
    \/ \E ct \in ContentTypes : ChannelSend(ct)
    \/ ChannelTransmit
    \/ \E d \in Dirs : Trace(d)
    \/ \E d \in Dirs : TraceReturn(d)
    \/ \E i \in 1..MaxMessages : SinkAccept(i)
    \/ \E i \in 1..MaxMessages : SinkSend(i)

SpecTrace ==
    /\ InitTrace
    /\ [][NextTrace]_vars
    /\ \A d \in Dirs : WF_vars(Trace(d)) /\ WF_vars(TraceReturn(d))

\* ---------------------------------------------------------------- membership claims
\* The accumulated requests that carried IsVoter = true, and their ids.
VoterRequests(reqs) == {i \in 1..Len(reqs) : reqs[i].IsVoter}
DistinctVoterIds(reqs) == {reqs[i].Id : i \in VoterRequests(reqs)}

\* A step in which thread t's Join runs its body (lines 283-321).
JoinBodyStep(t) ==
    /\ joinPc[t] = "locked"
    /\ restarts' = restarts
    /\ joinPc'[t] = "idle" \/ proc' = "panicked"

\* C1: over any sequence of Join calls (and restarts on the same data
\* directory) BootstrapCluster succeeds at most once; in particular never
\* again once the bootstrapped flag is set.
C1_BootstrapOnce ==
    /\ bootstrapOk <= 1
    /\ lastJoin.path = "bootstrapOk" => bootstrapped /\ bootstrapOk = 1

\* C1 witness: the bootstrap has succeeded and a later Join has been served.
C1_Witness ==
    /\ bootstrapOk = 1
    /\ bootstrapped
    /\ lastJoin.path \in {"handleJoinOk", "handleJoinFailed"}

\* C2: BootstrapCluster is invoked only when the pending list holds at least
\* MinClusterSize entries with pairwise distinct ids that came from requests
\* with IsVoter = true.
C2_BootstrapOnlyWithVoters ==
    lastJoin.path \in {"bootstrapOk", "bootstrapFailed"} =>
        Cardinality(DistinctVoterIds(pendingReqs)) >= minClusterSize

\* C3: on a controller that is not bootstrapped, the Join that accepts the
\* voter request bringing the number of accepted voter requests to
\* MinClusterSize performs the bootstrap: it does not merely accumulate.
C3_BootstrapWhenVotersReached ==
    (lastJoin.path = "accumulated" /\ pendingReqs[Len(pendingReqs)].IsVoter) =>
        Cardinality(VoterRequests(pendingReqs)) < minClusterSize

\* C4: once the controller is bootstrapped (flag set, or last log index > 0),
\* every valid Join goes to HandleJoin, leaves the pending list unchanged and
\* does not invoke BootstrapCluster.
C4_BootstrappedJoinsAreHandled ==
    [][\A t \in Threads :
        (JoinBodyStep(t) /\ ValidRequest(joinReq[t])
                         /\ (bootstrapped \/ LastIndex > 0))
        => /\ lastJoin'.path \in {"handleJoinOk", "handleJoinFailed"}
           /\ servers' = servers
           /\ bootstrapOk' = bootstrapOk]_vars

\* C9: no RemoveServer executes its membership change while a Join holds
\* clusterLock, and the other way round.
C9_MembershipChangesExclusive ==
    ~(clusterLock # NoThread /\ removePc = "handling")

\* C10: when the bootstrap attempt inside Join fails, the bootstrapped flag
\* stays false and the pending list is what it was before that Join call.
C10_FailedBootstrapLeavesState ==
    [][\A t \in Threads :
        (JoinBodyStep(t) /\ lastJoin'.path = "bootstrapFailed")
        => (servers' = servers /\ ~bootstrapped')]_vars

\* ---------------------------------------------------------------- dispatch claims
\* C5: a Dispatch that found the node not to be the leader (line 102) never
\* calls Raft.Apply and sends at most one request, a NewLogEntryType message
\* carrying the encoded command; unless connecting, encoding or the send
\* itself failed, exactly one request was delivered and the result is the
\* leader's outcome: nil for a success reply and only for it, the decoded
\* ApiError for an error reply carrying one, the reply's text as an error
\* for any other error reply.
C5_ForwardedToLeader ==
    dPath = "forward" =>
        /\ raftApplyCalls = 0
        /\ Len(sent) <= 1
        /\ \A i \in 1..Len(sent) :
            sent[i] = [ContentType |-> NewLogEntryType, Body |-> "enc:" \o dCmd.name]
        /\ (dPc = "idle" /\ dRet.kind \notin {"connect", "encode", "send"}) =>
            /\ Len(sent) = 1
            /\ dReply # NoReply
            /\ dReply.ContentType = SuccessResponseType <=> dRet = Nil
            /\ (/\ dReply.ContentType = ErrorResponseType
                /\ dReply.ErrorCode = ErrorCodeApiError
                /\ dReply.Body = "json") => dRet = Err("ApiError", dReply.Body)
            /\ (/\ dReply.ContentType = ErrorResponseType
                /\ dReply.ErrorCode # ErrorCodeApiError) => dRet = Err("error", dReply.Body)

\* C5 witness: a forwarded command whose error reply came back as the
\* decoded ApiError.
C5_Witness ==
    /\ dPath = "forward" /\ dPc = "idle"
    /\ Len(sent) = 1
    /\ dReply.ContentType = ErrorResponseType
    /\ dRet.kind = "ApiError"

\* C6: when a validatable command fails Validate, Dispatch returns that error
\* and has encoded nothing, connected to no peer, sent nothing and called no
\* Raft.Apply, on a leader and on a follower alike.
C6_ValidationShortCircuits ==
    (dCmd.validatable /\ ~dCmd.valid /\ dPc # "validate") =>
        /\ dPc = "idle"
        /\ dRet = Err("validation", dCmd.name)
        /\ dPath = "none"
        /\ validateCalls = 1
        /\ encodeCalls = 0
        /\ connectCalls = 0
        /\ raftApplyCalls = 0
        /\ sent = <<>>

\* C6 witness: a failed validation on the leader.
C6_Witness ==
    /\ dCmd.validatable /\ ~dCmd.valid
    /\ dPc = "idle"
    /\ dRet.kind = "validation"
    /\ raftState = "Leader"

\* ---------------------------------------------------------------- FSM claims
\* The command entries among log indices lo+1..hi, in log order.
RECURSIVE CommandIndices(_, _)
CommandIndices(lo, hi) ==
    IF hi <= lo THEN <<>>
    ELSE IF log[hi] = "cmd" THEN Append(CommandIndices(lo, hi - 1), hi)
    ELSE CommandIndices(lo, hi - 1)

C8_NoApplyBeforeInitialized ==
    appliedNow # <<>> => fsmInitialized

\* ---------------------------------------------------------------- more membership and dispatch claims
\* C11: a Join whose request has an empty id or an empty address returns an
\* error and changes nothing: the pending list, the bootstrapped flag and the
\* log are what they were, and neither HandleJoin nor BootstrapCluster ran.
C11_InvalidJoinRejected ==
    [][\A t \in Threads :
        (JoinBodyStep(t) /\ (joinReq[t].Id = "" \/ joinReq[t].Addr = ""))
        => /\ lastJoin'.path = "invalid"
           /\ initPc' = (IF t = "init" THEN "failed" ELSE initPc)
           /\ servers' = servers
           /\ bootstrapped' = bootstrapped
           /\ bootstrapOk' = bootstrapOk
           /\ log' = log
           /\ proc' = proc]_vars

\* C11 witness: an invalid request was rejected while the pending list held
\* an earlier request.
C11_Witness ==
    /\ lastJoin.path = "invalid"
    /\ servers # <<>>
    /\ ~bootstrapped

\* C12: for a forwarded command the reply decides the result by its type: nil
\* for a success reply and only for it, the decoded structured error for an
\* error reply that carries one, and for any other type a generic protocol
\* error that wraps the raw body of the reply.
C12_ReplyMappedByType ==
    (dPath = "forward" /\ dPc = "idle" /\ dReply # NoReply) =>
        /\ dReply.ContentType = SuccessResponseType <=> dRet = Nil
        /\ (/\ dReply.ContentType = ErrorResponseType
            /\ dReply.ErrorCode = ErrorCodeApiError
            /\ dReply.Body = "json") => dRet = Err("ApiError", dReply.Body)
        /\ dReply.ContentType \notin {SuccessResponseType, ErrorResponseType} =>
            /\ dRet.kind = "unexpected response type"
            /\ dRet.detail = dReply.Body

\* ---------------------------------------------------------------- codec claims
\* C13: for every valid message whose payload has at most 1457 bytes,
\* decodeMessage of the frame encodeMessage returns gives back the message,
\* equal in sequence, fragment, ofFragments, messageType, headersLength,
\* payloadLength and payload.
C13_RoundTrip ==
    (/\ cPc = "decoded"
     /\ cMsg.messageType \in {Hello, Ping, Payload, Acknowledgement}
     /\ Len(cMsg.payload) <= 1457) =>
        /\ cDec.err = ""
        /\ ~cDec.m.nil
        /\ cDec.m.val.sequence = cMsg.sequence
        /\ cDec.m.val.fragment = cMsg.fragment
        /\ cDec.m.val.ofFragments = cMsg.ofFragments
        /\ cDec.m.val.messageType = cMsg.messageType
        /\ cDec.m.val.headersLength = cMsg.headersLength
        /\ cDec.m.val.payload = cMsg.payload
        /\ cDec.m.val.payloadLength = cMsg.payloadLength

\* C14: decodeMessage returns an error and no message for every buffer
\* shorter than 15 bytes, every buffer whose first 4 bytes are not
\* 01 02 02 00, and every buffer whose header declares a headers length
\* other than 0.
C14_DecodeRejects ==
    (/\ cPc \in {"decoded", "received", "panicked"}
     /\ \/ Len(cData) < 15
        \/ \E i \in 1..4 : i <= Len(cData) /\ cData[i] # <<1, 2, 2, 0>>[i]
        \/ Len(cData) >= 13 /\ (cData[12] # 0 \/ cData[13] # 0)) =>
        /\ ~cDec.panic
        /\ cDec.err \notin {"", "<none>"}
        /\ cDec.m.nil

\* C14 witness: a full-length buffer with the right magic and a non-zero
\* headers length was read and rejected.
C14_Witness ==
    /\ cPc = "received"
    /\ Len(cData) >= 15
    /\ SubSeq(cData, 1, 4) = <<1, 2, 2, 0>>
    /\ cData[12] # 0
    /\ cDec.err = "error decoding message (headers error)"

\* C15: encodeMessage fails whenever header plus payload exceed 1472 bytes;
\* every frame it returns has 15 + len(payload) bytes and at most 1472, also
\* for payloads whose length does not fit in 16 bits.
C15_EncodeSizeBound ==
    cEnc # NoFrame =>
        /\ 15 + Len(cMsg.payload) > 1472 => (cEnc.err # "" /\ cEnc.data = <<>>)
        /\ cEnc.err = "" =>
            /\ Len(cEnc.data) = 15 + Len(cMsg.payload)
            /\ Len(cEnc.data) <= 1472

\* C15 witness: a payload one byte over the limit was refused.
C15_Witness ==
    /\ Len(cMsg.payload) = 1458
    /\ cEnc.err = "message too long"
    /\ cPc = "done"

\* C16: handleMessage rejects every Ping whose payload is not exactly 4 bytes
\* long and makes no callback for it; for a single-fragment Ping with a 4-byte
\* payload it calls HandlePing once, with the sequence and the payload read as
\* a signed little-endian int32.
C16_PingPayloadExactlyFour ==
    (cPc = "handledMessage" /\ hIn.val.messageType = Ping) =>
        IF Len(hIn.val.payload) # 4
        THEN hRet.err # "" /\ pingCalls = <<>>
        ELSE (hIn.val.fragment = 0 /\ hIn.val.ofFragments = 1) =>
                /\ hRet.err = ""
                /\ Len(pingCalls) = 1
                /\ pingCalls[1].sequence = hIn.val.sequence
                /\ LittleEndian(pingCalls[1].replyFor, 4) = hIn.val.payload
                /\ pingCalls[1].replyFor \in MinInt32..MaxInt32

\* C17: handleHello calls HandleHello once, with the payload as token, for a
\* Hello with sequence -1 and a single fragment, and only for it; any other
\* Hello, any other message type and a nil message give an error and no
\* callback.
C17_HelloValidated ==
    cPc = "handledHello" =>
        /\ ~hRet.panic
        /\ IF /\ ~hIn.nil
              /\ hIn.val.messageType = 0
              /\ hIn.val.sequence = -1
              /\ hIn.val.fragment = 0
              /\ hIn.val.ofFragments = 1
           THEN hRet.err = "" /\ helloCalls = <<hIn.val.payload>>
           ELSE hRet.err \notin {"", "<none>"} /\ helloCalls = <<>>

\* C17 witness: a Hello that was sent and read made the callback with its
\* token.
C17_Witness ==
    /\ cPc = "handledHello"
    /\ cDec.err = ""
    /\ helloCalls = <<TokenAbc>>

\* C18: every frame encodeMessage returns is magic 01 02 02 00, the sequence
\* as little-endian int32, fragment, ofFragments, messageType, 00 00, the
\* payload length as little-endian uint16, and the payload; the Hello of
\* writeHello for the token "abc" is
\* 01 02 02 00 FF FF FF FF 00 01 00 00 00 03 00 61 62 63.
C18_FixedLayout ==
    cEnc.err = "" =>
        LET d == cEnc.data IN
        /\ Len(d) = 15 + Len(cMsg.payload)
        /\ \A i \in 1..Len(d) : d[i] \in 0..255
        /\ SubSeq(d, 1, 4) = <<1, 2, 2, 0>>
        /\ d[5] + 256 * d[6] + 65536 * d[7]
           + 16777216 * (IF d[8] >= 128 THEN d[8] - 256 ELSE d[8]) = cMsg.sequence
        /\ d[9] = cMsg.fragment
        /\ d[10] = cMsg.ofFragments
        /\ d[11] = cMsg.messageType
        /\ d[12] = 0 /\ d[13] = 0
        /\ d[14] + 256 * d[15] = Len(cMsg.payload)
        /\ SubSeq(d, 16, Len(d)) = cMsg.payload
        /\ cMsg = HelloMessage(<<97, 98, 99>>) =>
            d = <<1, 2, 2, 0, 255, 255, 255, 255, 0, 1, 0, 0, 0, 3, 0, 97, 98, 99>>

\* C18 witness: the Hello for "abc" has been encoded.
C18_Witness ==
    /\ cMsg = HelloMessage(<<97, 98, 99>>)
    /\ cPc = "encoded"
    /\ Len(cEnc.data) = 18

\* C19: readMessage never crashes, whatever the datagram holds: it returns a
\* message or an error.
C19_ReceiveNeverCrashes ==
    cPc \in {"received", "panicked"} =>
        /\ ~cDec.panic
        /\ cDec.err = "" <=> ~cDec.m.nil

IdInitialized == initPc # "start" /\ initErr.kind \notin {"io", "identity"}

\* C21: identity initialization is idempotent. The id file is written only
\* when it is absent and its content never changes afterwards, so it holds
\* the id of the first startup that wrote it; and in every startup in which
\* initializeId succeeds the node id (tempId, the raft LocalID of line 199)
\* is the content of the id file.
C21_IdempotentIdentity ==
    /\ [](IdInitialized => idFile # NoFile /\ tempId = idFile)
    /\ [][idFile # NoFile => idFile' = idFile]_vars

\* A second startup found the file of the first (whose engine left an entry
\* in the log) and took its id from it; a uuid generated now would differ.
C21_Witness ==
    /\ restarts = 1
    /\ initPc = "storage"
    /\ Len(log) > 0
    /\ idFile = "n0"
    /\ tempId = "n0"
    /\ NewUuid # idFile

\* C22: an id file that exists and a non-empty tempId that differs from its
\* content make startup fail with the identity-mismatch error (or with the
\* error of ReadFile when the file cannot be read); the file keeps its
\* content, and Init has returned before the log storage is opened, the mesh
\* listens or the engine is created.
C22_MismatchedIdFails ==
    /\ [](initErr.kind = "identity" =>
            /\ initPc = "failed"
            /\ idFile # NoFile /\ tempId # "" /\ tempId # idFile
            /\ ~storeOpen /\ ~meshUp /\ ~engineUp /\ ~raftSet /\ ~fsmInitialized)
    /\ [][(/\ initPc = "start" /\ initPc' # "start"
            /\ idFile # NoFile /\ tempId # "" /\ tempId # idFile)
           => /\ initPc' = "failed"
              /\ initErr'.kind \in {"identity", "io"}
              /\ idFile' = idFile]_vars

\* The second startup was given the id s1 while the file held n0, and failed.
C22_Witness ==
    /\ restarts = 1
    /\ initErr = Err("identity", "")
    /\ idFile = "n0"
    /\ tempId = "s1"

\* The self join a node with this id file and advertise address issues.
LocalJoinRequest == [Id |-> idFile, Addr |-> AdvertiseAddress, IsVoter |-> TRUE]

\* C23: at the end of a normal startup (Init returned nil, no recover flag)
\* exactly one of two things has happened. The test of the log decides which:
\* with entries in the log the node is marked bootstrapped and Init is done
\* without a call of Join; with an empty log Init goes on to its self join.
\* Init calls Join at most once, with the local id and the advertise address
\* as a voter, and a finished startup that was not marked bootstrapped by
\* the test has made exactly that one call.
C23_BootstrappedOrSelfJoin ==
    /\ [](selfJoins \in {<<>>, <<LocalJoinRequest>>})
    /\ [](initPc = "done" /\ ~recover =>
            \/ selfJoins = <<>> /\ bootstrapped /\ LastIndex > 0
            \/ selfJoins = <<LocalJoinRequest>>)
    /\ [][initPc = "checkidx" /\ initPc' \notin {"checkidx", "start"} =>
            /\ selfJoins' = <<>>
            /\ IF LastIndex > 0
               THEN initPc' = "done" /\ bootstrapped'
               ELSE initPc' = "selfjoin" /\ bootstrapped' = bootstrapped]_vars

\* Startup ended after its self join, which went into the pending list.
C23_Witness ==
    /\ initPc = "done" /\ proc = "running"
    /\ selfJoins = <<LocalJoinRequest>>
    /\ lastJoin = [thread |-> "init", path |-> "accumulated"]
    /\ servers = <<JoinServer(LocalJoinRequest)>>

\* The configuration that holds the local node and nothing else.
LocalOnlyConfiguration == <<[ID |-> idFile, Address |-> AdvertiseAddress]>>

\* C24: with the recover flag set the engine is never opened (Init never
\* reaches NewRaft), the FSM's initialized flag and the Raft field are never
\* set and no self join is issued. The recovery step either fails, and Init
\* returns its error, or resets the membership to the local node alone and
\* ends the process; a process ends this way only there.
C24_RecoverResetsAndExits ==
    /\ [](recover =>
            /\ ~engineUp /\ ~fsmInitialized /\ ~raftSet /\ selfJoins = <<>>
            /\ initPc \notin {"newraft", "setinit", "setraft", "checkidx", "selfjoin", "done"})
    /\ [](proc = "exited" => recover /\ recoveredConfig = LocalOnlyConfiguration)
    /\ [][initPc = "recover" /\ initPc' \notin {"recover", "start"} =>
            \/ proc' = "exited" /\ recoveredConfig' = LocalOnlyConfiguration
            \/ initPc' = "failed" /\ initErr' = Err("recover", "") /\ proc' = proc]_vars

\* A node whose log has entries was started with the recover flag: the
\* membership was reset and the process is gone.
C24_Witness ==
    /\ proc = "exited"
    /\ recover
    /\ Len(log) > 0
    /\ recoveredConfig = <<[ID |-> "n0", Address |-> AdvertiseAddress]>>

\* C29: no Join entered through the mesh join handler evaluates
\* self.GetRaft().LastIndex() (line 291) while self.Raft is still nil: a Join
\* that holds the lock with a valid request finds the Raft field set, or the
\* bootstrapped flag set so that line 291 stops before it.
C29_HandlersSeeRaft ==
    \A t \in Threads :
        (joinPc[t] = "locked" /\ ValidRequest(joinReq[t])) => ~NilRaftUse

\* ---------------------------------------------------------------- more Dispatch claims
\* C28: a Dispatch call submits its command at most once and to one place:
\* one Raft.Apply or one request sent to the leader, never both and never
\* twice; the local branch connects to no peer. When Raft.Apply fails, as it
\* does when the node is no longer the leader at that point, Dispatch
\* returns that error and forwards nothing.
C28_SubmittedAtMostOnce ==
    /\ [](/\ raftApplyCalls + Len(sent) <= 1
          /\ dPath = "local" => connectCalls = 0 /\ sent = <<>>
          /\ dPath = "forward" => raftApplyCalls = 0
          /\ dRet.kind = "raft" =>
                /\ dPc = "idle" /\ dPath = "local"
                /\ raftApplyCalls = 1 /\ connectCalls = 0 /\ sent = <<>>)
    /\ [][(dPc = "apply" /\ dCmd.encodable /\ raftState # "Leader") =>
            (dPc' # "apply" => /\ dPc' = "idle"
                               /\ dRet' = Err("raft", "not leader")
                               /\ log' = log)]_vars

\* Dispatch found the node leader, the node then lost leadership to a known
\* leader, and the call ended with the error of Raft.Apply.
C28_Witness ==
    /\ dPath = "local" /\ dPc = "idle"
    /\ dRet = Err("raft", "not leader")
    /\ raftState = "Follower" /\ leaderAddr = LeaderAddress
    /\ raftApplyCalls = 1 /\ sent = <<>>

\* C30: on the leader an applied command whose FSM answer is a value that
\* is neither nil nor an error is reported as success, and an error answer
\* is returned as the error of Dispatch.
C30_NonErrorValueIsSuccess ==
    (dPath = "local" /\ dPc = "idle" /\ dVal # NoResponse) =>
        /\ dVal = "value" => dRet = Nil
        /\ dVal = "error" => dRet = Err("fsm", "")

\* ---------------------------------------------------------------- cluster claims
\* C25: any two controllers that have bootstrapped the cluster did so with
\* the same server list.
C25_SameBootstrapList ==
    \A a \in Nodes, b \in Nodes :
        (cluster[a].config # NoConfig /\ cluster[b].config # NoConfig) =>
            cluster[a].config = cluster[b].config

\* ---------------------------------------------------------------- trace claims
\* C26: trace publication is fire and forget. Once Rx or Tx has been called,
\* it returns, whatever the goroutines of the event sink do and even if they
\* never get to send over the channel.
C26_HandlerReturns ==
    \A d \in Dirs : (tPc[d] # "idle") ~> (tPc[d] = "idle")

\* Tx has returned for a traced message while the goroutine of its event
\* waits in Send for room in the queue of the very channel being traced.
C26_Witness ==
    /\ tPc["tx"] = "idle"
    /\ Len(tQueue) = MaxQueue
    /\ \E i \in 1..Len(tSinks) : tSinks[i] = [pc |-> "send", from |-> "tx"]

\* ---------------------------------------------------------------- trace claims
\* C31: after a ToggleTracing whose source matches, the handler's enabled
\* state equals the requested value and the new trace state of the result;
\* after a non-matching one it is what it was; and once a matching
\* DisableTracing was the last toggle, no message is traced.
C31_ToggleSetsRequested ==
    /\ [](tResult.sent =>
            IF tResult.matched
            THEN tEnabled = tResult.enable /\ tEnabled = tResult.nextState
            ELSE tEnabled = tResult.prevState /\ tResult.nextState = tResult.prevState)
    /\ [][tResult.sent /\ tResult.matched /\ ~tResult.enable /\ tResult' = tResult
            => tSinks' = tSinks]_vars

\* C32: trace publishes an event for a message exactly when tracing is
\* enabled and the message is not a trace event (TraceEventType or
\* StreamTracesEventType), one event for such a message; nothing else
\* publishes, so the events the sink sends over the traced channel produce
\* no events of their own: there are never more events than application
\* messages.
C32_PublishesOnlyUntraced ==
    /\ [][\A d \in Dirs :
            tPc[d] = "peek" /\ tPc'[d] # "peek" =>
                tSinks' = IF tEnabled /\ tMsg[d] \notin {TraceEventType, StreamTracesEventType}
                          THEN Append(tSinks, [pc |-> "accept", from |-> d])
                          ELSE tSinks]_vars
    /\ [][Len(tSinks') # Len(tSinks) =>
            \E d \in Dirs : tPc[d] = "peek" /\ tPc'[d] # "peek"]_vars
    /\ [](Len(tSinks) <= MaxMessages - tBudget)

\* C32 witness: one application message was seen and its event published;
\* the sink's trace event went out over the traced channel and trace, still
\* enabled, let it pass without an event.
C32_Witness ==
    /\ tBudget = MaxMessages - 1
    /\ Len(tSinks) = 1 /\ tSinks[1].pc = "done"
    /\ tQueue = <<>>
    /\ tPc = [d \in Dirs |-> "idle"]
    /\ tLast = [contentType |-> TraceEventType, enabled |-> TRUE, published |-> FALSE]

\* ---------------------------------------------------------------- receive claims
\* C33: a message that readMessage returns has a payload of exactly the
\* payloadLength bytes the datagram declares, and they are the bytes of the
\* datagram that follow its fixed section: none lies past the end of the
\* bytes read.
C33_PayloadWithinDatagram ==
    cPc = "received" /\ ~cDec.panic /\ cDec.err = "" =>
        LET declared == readUint16(SubSeq(cData, 14, 15)).ret IN
            /\ Len(cDec.m.val.payload) = declared
            /\ messageSectionLength + declared <= Len(cData)
            /\ cDec.m.val.payload =
                    SubSeq(cData, messageSectionLength + 1, messageSectionLength + declared)


====
